---- MODULE Spec2Model ----
(***************************************************************************)
(* A model of the NES emulator core: the 6502 CPU (src/cpu.py), the PPU    *)
(* register file and memory (src/ppu.py) and the mapper-0 cartridge        *)
(* (src/NESEmulator/rom.py).                                               *)
(*                                                                         *)
(* The Python objects are records.  Every method is an operator that takes *)
(* the machine m = [cpu, ppu, rom, error, ret] and yields the machine after*)
(* the call; m.ret is the value the method returned and m.error the        *)
(* exception it raised ("none" when it returned).  A raised exception      *)
(* propagates: every operator leaves a machine whose error is set as it is.*)
(*                                                                         *)
(* Byte arrays (array('B', [0] * n) and the ROM's bytes) are kept          *)
(* zero-suppressed: a function from the indices that hold a non-zero byte  *)
(* to that byte.  At reads an index, Put writes one and keeps the form     *)
(* canonical, and the array's length is checked where the code indexes.    *)
(***************************************************************************)
EXTENDS Integers, Sequences, FiniteSets, TLC

VARIABLES
    cpu,    \* the CPU object's fields (src/cpu.py, CPU.__init__)
    ppu,    \* the PPU object's fields (src/ppu.py, PPU.__init__)
    rom,    \* the ROM object's fields (src/NESEmulator/rom.py, ROM.__init__)
    error,  \* the exception that ended the run, "none" while it is running
    call,   \* the operation performed last: its name, arguments and result
    pre,    \* the machine as it was when that operation was called
    nops    \* the number of operations performed so far

vars == <<cpu, ppu, rom, error, call, pre, nops>>

---------------------------------------------------------------------------
(* Python integers and bit operations *)

\* A Python bool used as an integer.
AsInt(b) == IF b THEN 1 ELSE 0

\* Bit i of x in two's complement (\div rounds down, so x may be negative).
Bit(x, i) == (x \div (2 ^ i)) % 2

RECURSIVE AndBits(_, _, _)
AndBits(a, b, i) ==
    IF i < 0 THEN 0
    ELSE Bit(a, i) * Bit(b, i) * (2 ^ i) + AndBits(a, b, i - 1)

RECURSIVE OrBits(_, _, _)
OrBits(a, b, i) ==
    IF i < 0 THEN 0
    ELSE (IF Bit(a, i) + Bit(b, i) > 0 THEN 2 ^ i ELSE 0) + OrBits(a, b, i - 1)

RECURSIVE XorBits(_, _, _)
XorBits(a, b, i) ==
    IF i < 0 THEN 0
    ELSE ((Bit(a, i) + Bit(b, i)) % 2) * (2 ^ i) + XorBits(a, b, i - 1)

\* a & b, a | b, a ^ b and ~a on the low 16 bits, which is every bit the
\* code goes on to use.
BitAnd(a, b) == AndBits(a, b, 15)
BitOr(a, b) == OrBits(a, b, 15)
BitXor(a, b) == XorBits(a, b, 15)
BitNot(a) == XorBits(a, \hFFFF, 15)

---------------------------------------------------------------------------
(* Byte arrays *)

At(arr, i) == IF i \in DOMAIN arr THEN arr[i] ELSE 0

Put(arr, i, v) ==
    IF v = 0
    THEN [j \in DOMAIN arr \ {i} |-> arr[j]]
    ELSE [j \in DOMAIN arr \cup {i} |-> IF j = i THEN v ELSE arr[j]]

Zeros == [j \in {} |-> 0]

---------------------------------------------------------------------------
(* The machine threaded through the methods *)

Ok(m) == m.error = "none"
Ret(m, v) == [m EXCEPT !.ret = v]
Raise(m, e) == [m EXCEPT !.error = e]

\* The rest of a method, F, run on the machine r that a call has returned:
\* an exception raised in the call ends the method.
Bind(r, F(_)) == IF ~Ok(r) THEN r ELSE F(r)

MEM_SIZE == 2048
SPR_RAM_SIZE == 256
NAMETABLE_SIZE == 2048
PALETTE_SIZE == 32
PRG_ROM_BASE_UNIT_SIZE == 16384
CHR_ROM_BASE_UNIT_SIZE == 8192
PRG_RAM_SIZE == 8192
STACK_POINTER_RESET == \hFD
RESET_VECTOR == \hFFFC
NMI_VECTOR == \hFFFA
IRQ_BRK_VECTOR == \hFFFE

---------------------------------------------------------------------------
(* ROM: mapper 0 *)

PrgRomLen(r) == PRG_ROM_BASE_UNIT_SIZE * r.prg_rom_size
ChrRomLen(r) == CHR_ROM_BASE_UNIT_SIZE * r.chr_rom_size

\* read_mapper0 indexing the PRG-ROM without mirroring a single bank.
read_mapper0_unmirrored(m, address) ==
    IF ~Ok(m) THEN m
    ELSE IF address < \h2000 THEN
        IF address < ChrRomLen(m.rom)
        THEN Ret(m, At(m.rom.chr_rom, address))
        ELSE Raise(m, "IndexError")
    ELSE IF \h6000 <= address /\ address < \h8000 THEN
        Ret(m, At(m.rom.prg_ram, address % PRG_RAM_SIZE))
    ELSE IF address >= \h8000 THEN
        IF address - \h8000 < PrgRomLen(m.rom)
        THEN Ret(m, At(m.rom.prg_rom, address - \h8000))
        ELSE Raise(m, "IndexError")
    ELSE Raise(m, "LookupError")

\* write_mapper0 storing only writes inside the PRG-RAM window.
write_mapper0_window_only(m, address, value) ==
    IF ~Ok(m) THEN m
    ELSE IF \h6000 <= address /\ address < \h8000
    THEN [m EXCEPT !.rom.prg_ram = Put(@, address % PRG_RAM_SIZE, value)]
    ELSE m

read_mapper0(m, address) ==
    IF ~Ok(m) THEN m
    ELSE IF address < \h2000 THEN
        IF address < ChrRomLen(m.rom)
        THEN Ret(m, At(m.rom.chr_rom, address))
        ELSE Raise(m, "IndexError")
    ELSE IF \h6000 <= address /\ address < \h8000 THEN
        Ret(m, At(m.rom.prg_ram, address % PRG_RAM_SIZE))
    ELSE IF address >= \h8000 THEN
        LET index == IF m.rom.prg_rom_size > 1
                     THEN address - \h8000
                     ELSE (address - \h8000) % PRG_ROM_BASE_UNIT_SIZE
        IN  IF index < PrgRomLen(m.rom)
            THEN Ret(m, At(m.rom.prg_rom, index))
            ELSE Raise(m, "IndexError")
    ELSE Raise(m, "LookupError")

write_mapper0(m, address, value) ==
    IF ~Ok(m) THEN m
    ELSE IF address >= \h6000
    THEN [m EXCEPT !.rom.prg_ram = Put(@, address % PRG_RAM_SIZE, value)]
    ELSE m

---------------------------------------------------------------------------
(* PPU: memory and register file *)

\* NametableIndex folding every address as vertical mirroring does.
NametableIndex_always_vertical(r, address) ==
    ((address - \h2000) % \h1000) % \h0800

\* The nametable RAM index of a PPU address in 0x2000..0x3EFF.
NametableIndex(r, address) ==
    LET a == (address - \h2000) % \h1000
    IN  IF r.vertical_mirroring THEN a % \h0800
        ELSE IF a >= \h400 /\ a < \hC00 THEN a - \h400
        ELSE IF a >= \hC00 THEN a - \h800
        ELSE a

\* PaletteIndex without the sharing of 0x3F10, 0x3F14, 0x3F18, 0x3F1C.
PaletteIndex_unshared(address) == (address - \h3F00) % \h20

\* The palette RAM index of a PPU address in 0x3F00..0x3FFF.
PaletteIndex(address) ==
    LET a == (address - \h3F00) % \h20
    IN  IF a > \h0F /\ a % \h04 = 0 THEN a - \h10 ELSE a

ppu_read_memory(m, addr) ==
    IF ~Ok(m) THEN m
    ELSE LET address == addr % \h4000
    IN  IF address < \h2000 THEN read_mapper0(m, address)
        ELSE IF address < \h3F00 THEN
            LET i == NametableIndex(m.rom, address)
            IN  IF i < NAMETABLE_SIZE
                THEN Ret(m, At(m.ppu.nametables, i))
                ELSE Raise(m, "IndexError")
        ELSE Ret(m, At(m.ppu.palette, PaletteIndex(address)))

ppu_write_memory(m, addr, value) ==
    IF ~Ok(m) THEN m
    ELSE LET address == addr % \h4000
    IN  IF address < \h2000 THEN write_mapper0(m, address, value)
        ELSE IF address < \h3F00 THEN
            LET i == NametableIndex(m.rom, address)
            IN  IF i < NAMETABLE_SIZE
                THEN [m EXCEPT !.ppu.nametables = Put(@, i, value)]
                ELSE Raise(m, "IndexError")
        ELSE [m EXCEPT !.ppu.palette = Put(@, PaletteIndex(address), value)]

\* read_register whose PPUSTATUS read leaves the write latches alone.
read_register_keeping_latches(m, address) ==
    IF ~Ok(m) THEN m
    ELSE IF address = \h2002 THEN
        [m EXCEPT !.ppu.status = BitAnd(m.ppu.status, \b01111111),
                  !.ret = m.ppu.status]
    ELSE Raise(m, "LookupError")

\* read_register returning 0 for a register that cannot be read.
read_register_open_bus(m, address) ==
    IF ~Ok(m) THEN m
    ELSE IF address = \h2002 THEN
        [m EXCEPT !.ppu.addr_write_latch = FALSE,
                  !.ppu.scroll_latch = FALSE,
                  !.ppu.status = BitAnd(m.ppu.status, \b01111111),
                  !.ret = m.ppu.status]
    ELSE IF address = \h2004 THEN
        IF m.ppu.spr_address < SPR_RAM_SIZE
        THEN Ret(m, At(m.ppu.spr, m.ppu.spr_address))
        ELSE Raise(m, "IndexError")
    ELSE IF address = \h2007 THEN
        Bind(IF (m.ppu.addr % \h4000) < \h3F00
             THEN Bind(ppu_read_memory(m, m.ppu.addr), LAMBDA r :
                  [r EXCEPT !.ppu.buffer2007 = r.ret,
                            !.ret = m.ppu.buffer2007])
             ELSE Bind(ppu_read_memory(m, m.ppu.addr), LAMBDA r1 :
                  Bind(ppu_read_memory(r1, m.ppu.addr - \h1000), LAMBDA r2 :
                  [r2 EXCEPT !.ppu.buffer2007 = r2.ret, !.ret = r1.ret])),
             LAMBDA m1 :
        [m1 EXCEPT !.ppu.addr = @ + m.ppu.address_increment])
    ELSE Ret(m, 0)

\* read_register answering every PPUDATA read at once, as for the palette.
read_register_unbuffered(m, address) ==
    IF ~Ok(m) THEN m
    ELSE IF address = \h2002 THEN
        [m EXCEPT !.ppu.addr_write_latch = FALSE,
                  !.ppu.scroll_latch = FALSE,
                  !.ppu.status = BitAnd(m.ppu.status, \b01111111),
                  !.ret = m.ppu.status]
    ELSE IF address = \h2004 THEN
        IF m.ppu.spr_address < SPR_RAM_SIZE
        THEN Ret(m, At(m.ppu.spr, m.ppu.spr_address))
        ELSE Raise(m, "IndexError")
    ELSE IF address = \h2007 THEN
        Bind(IF FALSE
             THEN Bind(ppu_read_memory(m, m.ppu.addr), LAMBDA r :
                  [r EXCEPT !.ppu.buffer2007 = r.ret,
                            !.ret = m.ppu.buffer2007])
             ELSE Bind(ppu_read_memory(m, m.ppu.addr), LAMBDA r1 :
                  Bind(ppu_read_memory(r1, m.ppu.addr - \h1000), LAMBDA r2 :
                  [r2 EXCEPT !.ppu.buffer2007 = r2.ret, !.ret = r1.ret])),
             LAMBDA m1 :
        [m1 EXCEPT !.ppu.addr = @ + m.ppu.address_increment])
    ELSE Raise(m, "LookupError")

read_register(m, address) ==
    IF ~Ok(m) THEN m
    ELSE IF address = \h2002 THEN
        [m EXCEPT !.ppu.addr_write_latch = FALSE,
                  !.ppu.scroll_latch = FALSE,
                  !.ppu.status = BitAnd(m.ppu.status, \b01111111),
                  !.ret = m.ppu.status]
    ELSE IF address = \h2004 THEN
        IF m.ppu.spr_address < SPR_RAM_SIZE
        THEN Ret(m, At(m.ppu.spr, m.ppu.spr_address))
        ELSE Raise(m, "IndexError")
    ELSE IF address = \h2007 THEN
        Bind(IF (m.ppu.addr % \h4000) < \h3F00
             THEN Bind(ppu_read_memory(m, m.ppu.addr), LAMBDA r :
                  [r EXCEPT !.ppu.buffer2007 = r.ret,
                            !.ret = m.ppu.buffer2007])
             ELSE Bind(ppu_read_memory(m, m.ppu.addr), LAMBDA r1 :
                  Bind(ppu_read_memory(r1, m.ppu.addr - \h1000), LAMBDA r2 :
                  [r2 EXCEPT !.ppu.buffer2007 = r2.ret, !.ret = r1.ret])),
             LAMBDA m1 :
        [m1 EXCEPT !.ppu.addr = @ + m.ppu.address_increment])
    ELSE Raise(m, "LookupError")

write_register(m, address, value) ==
    IF ~Ok(m) THEN m
    ELSE IF address = \h2000 THEN
        [m EXCEPT
           !.ppu.nametable_address = \h2000 + BitAnd(value, \b00000011) * \h400,
           !.ppu.address_increment =
               IF BitAnd(value, \b00000100) # 0 THEN 32 ELSE 1,
           !.ppu.spr_pattern_table_address =
               (BitAnd(value, \b00001000) \div 8) * \h1000,
           !.ppu.background_pattern_table_address =
               (BitAnd(value, \b00010000) \div 16) * \h1000,
           !.ppu.generate_nmi = (BitAnd(value, \b10000000) # 0)]
    ELSE IF address = \h2001 THEN
        [m EXCEPT
           !.ppu.show_background = (BitAnd(value, \b00001000) # 0),
           !.ppu.show_sprites = (BitAnd(value, \b00010000) # 0),
           !.ppu.left_8_background_show = (BitAnd(value, \b00000010) # 0),
           !.ppu.left_8_sprite_show = (BitAnd(value, \b00000100) # 0)]
    ELSE IF address = \h2003 THEN
        [m EXCEPT !.ppu.spr_address = value]
    ELSE IF address = \h2004 THEN
        IF m.ppu.spr_address < SPR_RAM_SIZE
        THEN [m EXCEPT !.ppu.spr = Put(@, m.ppu.spr_address, value),
                       !.ppu.spr_address = @ + 1]
        ELSE Raise(m, "IndexError")
    ELSE IF address = \h2005 THEN
        IF ~m.ppu.scroll_latch
        THEN [m EXCEPT !.ppu.scroll_x = value, !.ppu.scroll_latch = TRUE]
        ELSE [m EXCEPT !.ppu.scroll_y = value, !.ppu.scroll_latch = FALSE]
    ELSE IF address = \h2006 THEN
        IF ~m.ppu.addr_write_latch
        THEN [m EXCEPT
                !.ppu.addr = BitOr(BitAnd(m.ppu.addr, \h00FF),
                                   BitAnd(value, \hFF) * 256),
                !.ppu.addr_write_latch = TRUE]
        ELSE [m EXCEPT
                !.ppu.addr = BitOr(BitAnd(m.ppu.addr, \hFF00),
                                   BitAnd(value, \hFF)),
                !.ppu.addr_write_latch = FALSE]
    ELSE IF address = \h2007 THEN
        Bind(ppu_write_memory(m, m.ppu.addr, value), LAMBDA m1 :
        [m1 EXCEPT !.ppu.addr = @ + m.ppu.address_increment])
    ELSE Raise(m, "LookupError")

---------------------------------------------------------------------------
(* PPU: the step of one PPU cycle, and the once-per-frame drawing as far   *)
(* as it changes the PPU or raises; the pixels of display_buffer are not   *)
(* kept                                                                    *)

NES_WIDTH == 256
NES_HEIGHT == 240

\* len(NES_PALETTE): NES_PALETTE[color] raises IndexError from here on.
NES_PALETTE_LEN == 64

\* The byte self.read_memory(a) returns where it does not raise.
Peek(m, a) == ppu_read_memory(m, a).ret

\* A pattern-table read raises when the cartridge has no CHR bytes there.
ChrMissing(m, a) == a % \h4000 < \h2000 /\ a % \h4000 >= ChrRomLen(m.rom)

\* The palette indexes of the 64 pixels of the background tile (x, y).
TilePixels(m, x, y) ==
    LET base == m.ppu.nametable_address
        nametable_entry == Peek(m, base + y * 32 + x)
        attribute_entry == Peek(m, base + 960 + (y \div 4) * 8 + (x \div 4))
        block == BitOr(BitAnd(y, 2), BitAnd(x, 2) \div 2)
        attribute_bits ==
            IF block = 0 THEN BitAnd(attribute_entry, \b00000011) * 4
            ELSE IF block = 1 THEN BitAnd(attribute_entry, \b00001100)
            ELSE IF block = 2 THEN BitAnd(attribute_entry, \b00110000) \div 4
            ELSE BitAnd(attribute_entry, \b11000000) \div 16
        pattern == m.ppu.background_pattern_table_address
                   + nametable_entry * 16
    IN  {Bit(Peek(m, pattern + fine_y), 7 - fine_x)
         + 2 * Bit(Peek(m, pattern + 8 + fine_y), 7 - fine_x)
         + attribute_bits : fine_y \in 0 .. 7, fine_x \in 0 .. 7}

\* The addresses draw_background reads for tile (x, y).
TileReads(m, x, y) ==
    LET base == m.ppu.nametable_address
        pattern == m.ppu.background_pattern_table_address
                   + Peek(m, base + y * 32 + x) * 16
    IN  {base + y * 32 + x, base + 960 + (y \div 4) * 8 + (x \div 4)}
        \cup {pattern + k : k \in 0 .. 15}

\* The colour of a background pixel: the first palette entry where the
\* pixel is transparent.
BackgroundColor(m, pixel) ==
    IF pixel % 4 = 0 THEN At(m.ppu.palette, 0) ELSE At(m.ppu.palette, pixel)

draw_background(m) ==
    IF ~Ok(m) THEN m
    ELSE IF \E y \in 0 .. 29, x \in 0 .. 31 :
               \/ \E a \in TileReads(m, x, y) : ChrMissing(m, a)
               \/ \E pixel \in TilePixels(m, x, y) :
                     BackgroundColor(m, pixel) >= NES_PALETTE_LEN
    THEN Raise(m, "IndexError")
    ELSE m

\* Sprite i covers pixel (x, y) of the screen: the two loops reach it.
SpriteCovers(m, i, x, y) ==
    /\ At(m.ppu.spr, i) # \hFF
    /\ x >= At(m.ppu.spr, i + 3) /\ x < At(m.ppu.spr, i + 3) + 8
    /\ x < NES_WIDTH
    /\ y >= At(m.ppu.spr, i) /\ y < At(m.ppu.spr, i) + 8
    /\ y < NES_HEIGHT

\* The pattern-table address of the low bit plane of sprite i at line y.
SpriteLineAddress(m, i, y) ==
    LET sprite_line == IF Bit(At(m.ppu.spr, i + 2), 7) = 1
                       THEN 7 - (y - At(m.ppu.spr, i))
                       ELSE y - At(m.ppu.spr, i)
    IN  m.ppu.spr_pattern_table_address + At(m.ppu.spr, i + 1) * 16
        + sprite_line

\* The two pattern bits of sprite i at pixel (x, y).
SpritePixel(m, i, x, y) ==
    LET x_loc == IF Bit(At(m.ppu.spr, i + 2), 6) = 0
                 THEN 7 - (x - At(m.ppu.spr, i + 3))
                 ELSE x - At(m.ppu.spr, i + 3)
    IN  2 * Bit(Peek(m, SpriteLineAddress(m, i, y) + 8), x_loc)
        + Bit(Peek(m, SpriteLineAddress(m, i, y)), x_loc)

\* Drawing pixel (x, y) of sprite i raises: the pattern bytes are missing,
\* or the pixel is drawn with a palette byte that is no NES colour.
SpriteFault(m, i, x, y, background_transparent) ==
    /\ SpriteCovers(m, i, x, y)
    /\ \/ ChrMissing(m, SpriteLineAddress(m, i, y))
       \/ ChrMissing(m, SpriteLineAddress(m, i, y) + 8)
       \/ /\ SpritePixel(m, i, x, y) # 0
          /\ ~(Bit(At(m.ppu.spr, i + 2), 5) = 1 /\ ~background_transparent)
          /\ Peek(m, \h3F10 + BitOr(BitAnd(At(m.ppu.spr, i + 2), 3) * 4,
                                    SpritePixel(m, i, x, y)))
             >= NES_PALETTE_LEN

\* SpriteZeroHit without the clipping of the left eight columns.
SpriteZeroHit_unclipped(m, x, y, background_transparent) ==
    /\ SpriteCovers(m, 0, x, y)
    /\ ~ChrMissing(m, SpriteLineAddress(m, 0, y))
    /\ ~ChrMissing(m, SpriteLineAddress(m, 0, y) + 8)
    /\ SpritePixel(m, 0, x, y) # 0
    /\ ~background_transparent
    /\ m.ppu.show_background
    /\ m.ppu.show_sprites

\* Pixel (x, y) of sprite 0 is a sprite-zero hit.
SpriteZeroHit(m, x, y, background_transparent) ==
    /\ SpriteCovers(m, 0, x, y)
    /\ ~ChrMissing(m, SpriteLineAddress(m, 0, y))
    /\ ~ChrMissing(m, SpriteLineAddress(m, 0, y) + 8)
    /\ SpritePixel(m, 0, x, y) # 0
    /\ ~background_transparent
    /\ ~(x < 8 /\ (~m.ppu.left_8_sprite_show
                   \/ ~m.ppu.left_8_background_show))
    /\ m.ppu.show_background
    /\ m.ppu.show_sprites

\* Pixel (x1, y1) is drawn no later than (x2, y2): x is the outer loop.
DrawnBefore(x1, y1, x2, y2) == x1 < x2 \/ (x1 = x2 /\ y1 <= y2)

\* The box of the screen sprite i can reach.
SpriteXs(m, i) == At(m.ppu.spr, i + 3) .. (At(m.ppu.spr, i + 3) + 7)
SpriteYs(m, i) == At(m.ppu.spr, i) .. (At(m.ppu.spr, i) + 7)

\* The sprites are drawn from the last to sprite 0; sprite 0 sets status
\* bit 6 at its first hit pixel unless drawing raised before.
draw_sprites(m, background_transparent) ==
    IF ~Ok(m) THEN m
    ELSE IF \E n \in 1 .. 63 : \E x \in SpriteXs(m, 4 * n),
                                  y \in SpriteYs(m, 4 * n) :
               SpriteFault(m, 4 * n, x, y, background_transparent)
    THEN Raise(m, "IndexError")
    ELSE LET hit ==
                 \E x \in SpriteXs(m, 0), y \in SpriteYs(m, 0) :
                    /\ SpriteZeroHit(m, x, y, background_transparent)
                    /\ \A fx \in SpriteXs(m, 0), fy \in SpriteYs(m, 0) :
                          SpriteFault(m, 0, fx, fy, background_transparent)
                          => DrawnBefore(x, y, fx, fy)
             fault ==
                 \E x \in SpriteXs(m, 0), y \in SpriteYs(m, 0) :
                    SpriteFault(m, 0, x, y, background_transparent)
         IN  [m EXCEPT !.ppu.status =
                           IF hit THEN BitOr(@, \b01000000) ELSE @,
                       !.error = IF fault THEN "IndexError" ELSE @]

\* PPU.step counting 342 cycles to the scanline and drawing nothing.
ppu_step_long_scanline(m) ==
    IF ~Ok(m) THEN m
    ELSE IF m.ppu.cycle + 1 > 341
    THEN [m EXCEPT !.ppu.cycle = 0,
                   !.ppu.scanline = IF @ + 1 > 261 THEN 0 ELSE @ + 1]
    ELSE [m EXCEPT !.ppu.cycle = @ + 1]

ppu_step(m) ==
    IF ~Ok(m) THEN m
    ELSE Bind(IF m.ppu.scanline = 240 /\ m.ppu.cycle = 256
              THEN Bind(IF m.ppu.show_background
                        THEN draw_background(m) ELSE m, LAMBDA m1 :
                   IF m1.ppu.show_sprites
                   THEN draw_sprites(m1, FALSE) ELSE m1)
              ELSE m, LAMBDA m2 :
         Bind(IF m2.ppu.scanline = 241 /\ m2.ppu.cycle = 1
              THEN [m2 EXCEPT !.ppu.status = BitOr(@, \b10000000)]
              ELSE IF m2.ppu.scanline = 261 /\ m2.ppu.cycle = 1
              THEN [m2 EXCEPT !.ppu.status = BitOr(@, \b00011111)]
              ELSE m2, LAMBDA m3 :
         IF m3.ppu.cycle + 1 > 340
         THEN [m3 EXCEPT !.ppu.cycle = 0,
                         !.ppu.scanline = IF @ + 1 > 261 THEN 0 ELSE @ + 1]
         ELSE [m3 EXCEPT !.ppu.cycle = @ + 1]))

---------------------------------------------------------------------------
(* CPU: addressing, bus, stack, status *)

\* different_pages that takes an address below zero for page 0.
different_pages_clamped(address1, address2) ==
    BitAnd(address1, \hFF00)
        # BitAnd(IF address2 < 0 THEN 0 ELSE address2, \hFF00)

different_pages(address1, address2) ==
    BitAnd(address1, \hFF00) # BitAnd(address2, \hFF00)

\* ram_mirror without the mirroring.
ram_mirror_none(address) == address

\* The RAM index of a bus address below 0x2000: the 2 KB are mirrored.
ram_mirror(address) == address % \h800

\* self.ram[i] read directly: an index past the array raises IndexError.
RamRead(m, i) ==
    IF ~Ok(m) THEN m
    ELSE IF i < MEM_SIZE THEN Ret(m, At(m.cpu.ram, i))
    ELSE Raise(m, "IndexError")

RamWrite(m, i, value) ==
    IF ~Ok(m) THEN m
    ELSE IF i < MEM_SIZE THEN [m EXCEPT !.cpu.ram = Put(@, i, value)]
    ELSE Raise(m, "IndexError")

address_for_mode(m, data, mode) ==
    IF ~Ok(m) THEN m
    ELSE IF mode = "ABSOLUTE" THEN Ret(m, data)
    ELSE IF mode = "ABSOLUTE_X" THEN
        LET address == BitAnd(data + m.cpu.X, \hFFFF)
        IN  [m EXCEPT !.cpu.page_crossed =
                          different_pages(address, address - m.cpu.X),
                      !.ret = address]
    ELSE IF mode = "ABSOLUTE_Y" THEN
        LET address == BitAnd(data + m.cpu.Y, \hFFFF)
        IN  [m EXCEPT !.cpu.page_crossed =
                          different_pages(address, address - m.cpu.Y),
                      !.ret = address]
    ELSE IF mode = "INDEXED_INDIRECT" THEN
        Bind(RamRead(m, BitAnd(data + m.cpu.X, \hFF)), LAMBDA ls :
        Bind(RamRead(ls, BitAnd(data + m.cpu.X + 1, \hFF)), LAMBDA ms :
        Ret(ms, BitOr(ms.ret * 256, ls.ret))))
    ELSE IF mode = "INDIRECT" THEN
        Bind(RamRead(m, data), LAMBDA ls :
        Bind(RamRead(ls, data + 1), LAMBDA ms :
        Bind(IF BitAnd(data, \hFF) = \hFF
             THEN RamRead(ms, BitAnd(data, \hFF00))
             ELSE ms, LAMBDA ms2 :
        Ret(ms2, BitOr(ms2.ret * 256, ls.ret)))))
    ELSE IF mode = "INDIRECT_INDEXED" THEN
        Bind(RamRead(m, BitAnd(data, \hFF)), LAMBDA ls :
        Bind(RamRead(ls, BitAnd(data + 1, \hFF)), LAMBDA ms :
        LET address == BitAnd(BitOr(ms.ret * 256, ls.ret) + m.cpu.Y, \hFFFF)
        IN  [ms EXCEPT !.cpu.page_crossed =
                           different_pages(address, address - m.cpu.Y),
                       !.ret = address]))
    ELSE IF mode = "RELATIVE" THEN
        Ret(m, IF data < \h80
               THEN BitAnd(m.cpu.PC + 2 + data, \hFFFF)
               ELSE BitAnd(m.cpu.PC + 2 + (data - 256), \hFFFF))
    ELSE IF mode = "ZEROPAGE" THEN Ret(m, data)
    ELSE IF mode = "ZEROPAGE_X" THEN Ret(m, BitAnd(data + m.cpu.X, \hFF))
    ELSE IF mode = "ZEROPAGE_Y" THEN Ret(m, BitAnd(data + m.cpu.Y, \hFF))
    ELSE Ret(m, 0)

\* JoypadButton reporting Start before Select.
JoypadButton_start_first(j, n) ==
    IF n = 1 THEN j.a
    ELSE IF n = 2 THEN j.b
    ELSE IF n = 3 THEN j.start
    ELSE IF n = 4 THEN j.select
    ELSE IF n = 5 THEN j.up
    ELSE IF n = 6 THEN j.down
    ELSE IF n = 7 THEN j.left
    ELSE j.right

\* The button the n-th read of the joypad shift register returns.
JoypadButton(j, n) ==
    IF n = 1 THEN j.a
    ELSE IF n = 2 THEN j.b
    ELSE IF n = 3 THEN j.select
    ELSE IF n = 4 THEN j.start
    ELSE IF n = 5 THEN j.up
    ELSE IF n = 6 THEN j.down
    ELSE IF n = 7 THEN j.left
    ELSE j.right

joypad_read(m) ==
    IF m.cpu.joypad1.strobe THEN Ret(m, AsInt(m.cpu.joypad1.a))
    ELSE LET n == m.cpu.joypad1.read_count + 1
         IN  [m EXCEPT !.cpu.joypad1.read_count = n,
                       !.ret = IF n <= 8
                               THEN BitOr(\h40, AsInt(JoypadButton(m.cpu.joypad1, n)))
                               ELSE \h41]

read_memory(m, location, mode) ==
    IF ~Ok(m) THEN m
    ELSE IF mode = "IMMEDIATE" THEN Ret(m, location)
    ELSE Bind(address_for_mode(m, location, mode), LAMBDA m1 :
         LET address == m1.ret
         IN  IF address < \h2000 THEN
                 Ret(m1, At(m1.cpu.ram, ram_mirror(address)))
             ELSE IF address < \h4000 THEN
                 read_register(m1, BitOr(address % 8, \h2000))
             ELSE IF address = \h4016 THEN joypad_read(m1)
             ELSE IF address < \h6000 THEN Ret(m1, 0)
             ELSE read_mapper0(m1, address))

\* dma_copy reading one byte too far: spr[i] = read_memory(from + i + 1).
RECURSIVE dma_copy_shifted(_, _, _, _)
dma_copy_shifted(m, from_address, lo, hi) ==
    IF ~Ok(m) \/ lo >= hi THEN m
    ELSE IF hi - lo = 1 THEN
        Bind(read_memory(m, from_address + lo + 1, "ABSOLUTE"), LAMBDA r :
        [r EXCEPT !.ppu.spr = Put(@, lo, r.ret)])
    ELSE dma_copy_shifted(
             dma_copy_shifted(m, from_address, lo, (lo + hi) \div 2),
             from_address, (lo + hi) \div 2, hi)

\* The OAM DMA loop for i in lo..hi-1, in order:
\* spr[i] = read_memory(from_address + i, ABSOLUTE).  The range is halved
\* rather than walked so that the evaluation stays shallow.
RECURSIVE dma_copy(_, _, _, _)
dma_copy(m, from_address, lo, hi) ==
    IF ~Ok(m) \/ lo >= hi THEN m
    ELSE IF hi - lo = 1 THEN
        Bind(read_memory(m, from_address + lo, "ABSOLUTE"), LAMBDA r :
        [r EXCEPT !.ppu.spr = Put(@, lo, r.ret)])
    ELSE dma_copy(dma_copy(m, from_address, lo, (lo + hi) \div 2),
                  from_address, (lo + hi) \div 2, hi)

write_memory(m, location, mode, value) ==
    IF ~Ok(m) THEN m
    ELSE IF mode = "IMMEDIATE" THEN RamWrite(m, location, value)
    ELSE Bind(address_for_mode(m, location, mode), LAMBDA m1 :
         LET address == m1.ret
         IN  IF address < \h2000 THEN
                 [m1 EXCEPT !.cpu.ram = Put(@, ram_mirror(address), value)]
             ELSE IF address < \h3FFF THEN
                 write_register(m1, BitOr(address % 8, \h2000), value)
             ELSE IF address = \h4014 THEN
                 Bind(dma_copy(m1, value * \h100, 0, SPR_RAM_SIZE), LAMBDA m2 :
                 [m2 EXCEPT !.cpu.stall = 512])
             ELSE IF address = \h4016 THEN
                 [m1 EXCEPT
                    !.cpu.joypad1.read_count =
                        IF m1.cpu.joypad1.strobe /\ BitAnd(value, 1) = 0
                        THEN 0 ELSE @,
                    !.cpu.joypad1.strobe = (BitAnd(value, 1) # 0)]
             ELSE IF address < \h6000 THEN m1
             ELSE write_mapper0(m1, address, value))

setZN(m, value) ==
    IF ~Ok(m) THEN m
    ELSE [m EXCEPT !.cpu.Z = (value = 0),
                   !.cpu.N = (BitAnd(value, \h80) # 0 \/ value < 0)]

stack_push(m, value) ==
    IF ~Ok(m) THEN m
    ELSE [m EXCEPT !.cpu.ram = Put(@, BitOr(\h100, m.cpu.SP), value),
                   !.cpu.SP = BitAnd(m.cpu.SP - 1, \hFF)]

\* stack_pop that reads before it moves the stack pointer.
stack_pop_before_increment(m) ==
    IF ~Ok(m) THEN m
    ELSE [m EXCEPT !.cpu.SP = BitAnd(m.cpu.SP + 1, \hFF),
                   !.ret = At(m.cpu.ram, BitOr(\h100, m.cpu.SP))]

stack_pop(m) ==
    IF ~Ok(m) THEN m
    ELSE LET sp == BitAnd(m.cpu.SP + 1, \hFF)
         IN  [m EXCEPT !.cpu.SP = sp,
                       !.ret = At(m.cpu.ram, BitOr(\h100, sp))]

\* status without the constant bit 5.
status_without_bit5(c) ==
    AsInt(c.C) + AsInt(c.Z) * 2 + AsInt(c.I) * 4 + AsInt(c.D) * 8
    + AsInt(c.B) * 16 + AsInt(c.V) * 64 + AsInt(c.N) * 128

status(c) ==
    AsInt(c.C) + AsInt(c.Z) * 2 + AsInt(c.I) * 4 + AsInt(c.D) * 8
    + AsInt(c.B) * 16 + 32 + AsInt(c.V) * 64 + AsInt(c.N) * 128

\* set_status that takes B from bit 4 like the other flags.
set_status_restoring_B(m, temp) ==
    IF ~Ok(m) THEN m
    ELSE [m EXCEPT !.cpu.C = (BitAnd(temp, \b00000001) # 0),
                   !.cpu.Z = (BitAnd(temp, \b00000010) # 0),
                   !.cpu.I = (BitAnd(temp, \b00000100) # 0),
                   !.cpu.D = (BitAnd(temp, \b00001000) # 0),
                   !.cpu.B = (BitAnd(temp, \b00010000) # 0),
                   !.cpu.V = (BitAnd(temp, \b01000000) # 0),
                   !.cpu.N = (BitAnd(temp, \b10000000) # 0)]

set_status(m, temp) ==
    IF ~Ok(m) THEN m
    ELSE [m EXCEPT !.cpu.C = (BitAnd(temp, \b00000001) # 0),
                   !.cpu.Z = (BitAnd(temp, \b00000010) # 0),
                   !.cpu.I = (BitAnd(temp, \b00000100) # 0),
                   !.cpu.D = (BitAnd(temp, \b00001000) # 0),
                   !.cpu.B = FALSE,
                   !.cpu.V = (BitAnd(temp, \b01000000) # 0),
                   !.cpu.N = (BitAnd(temp, \b10000000) # 0)]

\* B = True; stack_push(status); B = False
push_status(m) ==
    IF ~Ok(m) THEN m
    ELSE LET p == stack_push(m, status([m.cpu EXCEPT !.B = TRUE]))
         IN  [p EXCEPT !.cpu.B = FALSE]

\* Word with the bytes taken in the other order.
Word_big_endian(lo, hi) == BitOr(hi, lo * 256)

\* A 16-bit word from its low and high bytes: lo | (hi << 8).
Word(lo, hi) == BitOr(lo, hi * 256)

\* trigger_NMI pushing the low byte of PC before the high byte.
trigger_NMI_pushing_low_first(m) ==
    IF ~Ok(m) THEN m
    ELSE Bind(read_memory(push_status(
                  stack_push(stack_push(m, BitAnd(m.cpu.PC, \hFF)),
                             BitAnd(m.cpu.PC \div 256, \hFF))),
              NMI_VECTOR, "ABSOLUTE"), LAMBDA lo :
         Bind(read_memory(lo, NMI_VECTOR + 1, "ABSOLUTE"), LAMBDA hi :
         [hi EXCEPT !.cpu.PC = Word(lo.ret, hi.ret), !.cpu.I = TRUE]))

\* trigger_NMI charging the seven cycles of an interrupt sequence.
trigger_NMI_taking_ticks(m) ==
    IF ~Ok(m) THEN m
    ELSE Bind(read_memory(push_status(
                  stack_push(stack_push(m, BitAnd(m.cpu.PC \div 256, \hFF)),
                             BitAnd(m.cpu.PC, \hFF))),
              NMI_VECTOR, "ABSOLUTE"), LAMBDA lo :
         Bind(read_memory(lo, NMI_VECTOR + 1, "ABSOLUTE"), LAMBDA hi :
         [hi EXCEPT !.cpu.PC = Word(lo.ret, hi.ret), !.cpu.I = TRUE,
                    !.cpu.cpu_ticks = @ + 7]))

trigger_NMI(m) ==
    IF ~Ok(m) THEN m
    ELSE LET m1 == stack_push(m, BitAnd(m.cpu.PC \div 256, \hFF))
             m2 == stack_push(m1, BitAnd(m.cpu.PC, \hFF))
             m3 == push_status(m2)
             m4 == [m3 EXCEPT !.cpu.I = TRUE]
         IN  Bind(read_memory(m4, NMI_VECTOR, "ABSOLUTE"), LAMBDA lo :
             Bind(read_memory(lo, NMI_VECTOR + 1, "ABSOLUTE"), LAMBDA hi :
             [hi EXCEPT !.cpu.PC = Word(lo.ret, hi.ret)]))

---------------------------------------------------------------------------
(* CPU: the instruction table, indexed by opcode + 1 *)

Instructions == <<
    [type |-> "BRK", method |-> "BRK", mode |-> "IMPLIED", length |-> 1, ticks |-> 7, page_ticks |-> 0],  \* 00
    [type |-> "ORA", method |-> "ORA", mode |-> "INDEXED_INDIRECT", length |-> 2, ticks |-> 6, page_ticks |-> 0],  \* 01
    [type |-> "KIL", method |-> "unimplemented", mode |-> "IMPLIED", length |-> 0, ticks |-> 2, page_ticks |-> 0],  \* 02
    [type |-> "SLO", method |-> "unimplemented", mode |-> "INDEXED_INDIRECT", length |-> 0, ticks |-> 8, page_ticks |-> 0],  \* 03
    [type |-> "NOP", method |-> "NOP", mode |-> "ZEROPAGE", length |-> 2, ticks |-> 3, page_ticks |-> 0],  \* 04
    [type |-> "ORA", method |-> "ORA", mode |-> "ZEROPAGE", length |-> 2, ticks |-> 3, page_ticks |-> 0],  \* 05
    [type |-> "ASL", method |-> "ASL", mode |-> "ZEROPAGE", length |-> 2, ticks |-> 5, page_ticks |-> 0],  \* 06
    [type |-> "SLO", method |-> "unimplemented", mode |-> "ZEROPAGE", length |-> 0, ticks |-> 5, page_ticks |-> 0],  \* 07
    [type |-> "PHP", method |-> "PHP", mode |-> "IMPLIED", length |-> 1, ticks |-> 3, page_ticks |-> 0],  \* 08
    [type |-> "ORA", method |-> "ORA", mode |-> "IMMEDIATE", length |-> 2, ticks |-> 2, page_ticks |-> 0],  \* 09
    [type |-> "ASL", method |-> "ASL", mode |-> "ACCUMULATOR", length |-> 1, ticks |-> 2, page_ticks |-> 0],  \* 0a
    [type |-> "ANC", method |-> "unimplemented", mode |-> "IMMEDIATE", length |-> 0, ticks |-> 2, page_ticks |-> 0],  \* 0b
    [type |-> "NOP", method |-> "NOP", mode |-> "ABSOLUTE", length |-> 3, ticks |-> 4, page_ticks |-> 0],  \* 0c
    [type |-> "ORA", method |-> "ORA", mode |-> "ABSOLUTE", length |-> 3, ticks |-> 4, page_ticks |-> 0],  \* 0d
    [type |-> "ASL", method |-> "ASL", mode |-> "ABSOLUTE", length |-> 3, ticks |-> 6, page_ticks |-> 0],  \* 0e
    [type |-> "SLO", method |-> "unimplemented", mode |-> "ABSOLUTE", length |-> 0, ticks |-> 6, page_ticks |-> 0],  \* 0f
    [type |-> "BPL", method |-> "BPL", mode |-> "RELATIVE", length |-> 2, ticks |-> 2, page_ticks |-> 1],  \* 10
    [type |-> "ORA", method |-> "ORA", mode |-> "INDIRECT_INDEXED", length |-> 2, ticks |-> 5, page_ticks |-> 1],  \* 11
    [type |-> "KIL", method |-> "unimplemented", mode |-> "IMPLIED", length |-> 0, ticks |-> 2, page_ticks |-> 0],  \* 12
    [type |-> "SLO", method |-> "unimplemented", mode |-> "INDIRECT_INDEXED", length |-> 0, ticks |-> 8, page_ticks |-> 0],  \* 13
    [type |-> "NOP", method |-> "NOP", mode |-> "ZEROPAGE_X", length |-> 2, ticks |-> 4, page_ticks |-> 0],  \* 14
    [type |-> "ORA", method |-> "ORA", mode |-> "ZEROPAGE_X", length |-> 2, ticks |-> 4, page_ticks |-> 0],  \* 15
    [type |-> "ASL", method |-> "ASL", mode |-> "ZEROPAGE_X", length |-> 2, ticks |-> 6, page_ticks |-> 0],  \* 16
    [type |-> "SLO", method |-> "unimplemented", mode |-> "ZEROPAGE_X", length |-> 0, ticks |-> 6, page_ticks |-> 0],  \* 17
    [type |-> "CLC", method |-> "CLC", mode |-> "IMPLIED", length |-> 1, ticks |-> 2, page_ticks |-> 0],  \* 18
    [type |-> "ORA", method |-> "ORA", mode |-> "ABSOLUTE_Y", length |-> 3, ticks |-> 4, page_ticks |-> 1],  \* 19
    [type |-> "NOP", method |-> "NOP", mode |-> "IMPLIED", length |-> 1, ticks |-> 2, page_ticks |-> 0],  \* 1a
    [type |-> "SLO", method |-> "unimplemented", mode |-> "ABSOLUTE_Y", length |-> 0, ticks |-> 7, page_ticks |-> 0],  \* 1b
    [type |-> "NOP", method |-> "NOP", mode |-> "ABSOLUTE_X", length |-> 3, ticks |-> 4, page_ticks |-> 1],  \* 1c
    [type |-> "ORA", method |-> "ORA", mode |-> "ABSOLUTE_X", length |-> 3, ticks |-> 4, page_ticks |-> 1],  \* 1d
    [type |-> "ASL", method |-> "ASL", mode |-> "ABSOLUTE_X", length |-> 3, ticks |-> 7, page_ticks |-> 0],  \* 1e
    [type |-> "SLO", method |-> "unimplemented", mode |-> "ABSOLUTE_X", length |-> 0, ticks |-> 7, page_ticks |-> 0],  \* 1f
    [type |-> "JSR", method |-> "JSR", mode |-> "ABSOLUTE", length |-> 3, ticks |-> 6, page_ticks |-> 0],  \* 20
    [type |-> "AND", method |-> "AND", mode |-> "INDEXED_INDIRECT", length |-> 2, ticks |-> 6, page_ticks |-> 0],  \* 21
    [type |-> "KIL", method |-> "unimplemented", mode |-> "IMPLIED", length |-> 0, ticks |-> 2, page_ticks |-> 0],  \* 22
    [type |-> "RLA", method |-> "unimplemented", mode |-> "INDEXED_INDIRECT", length |-> 0, ticks |-> 8, page_ticks |-> 0],  \* 23
    [type |-> "BIT", method |-> "BIT", mode |-> "ZEROPAGE", length |-> 2, ticks |-> 3, page_ticks |-> 0],  \* 24
    [type |-> "AND", method |-> "AND", mode |-> "ZEROPAGE", length |-> 2, ticks |-> 3, page_ticks |-> 0],  \* 25
    [type |-> "ROL", method |-> "ROL", mode |-> "ZEROPAGE", length |-> 2, ticks |-> 5, page_ticks |-> 0],  \* 26
    [type |-> "RLA", method |-> "unimplemented", mode |-> "ZEROPAGE", length |-> 0, ticks |-> 5, page_ticks |-> 0],  \* 27
    [type |-> "PLP", method |-> "PLP", mode |-> "IMPLIED", length |-> 1, ticks |-> 4, page_ticks |-> 0],  \* 28
    [type |-> "AND", method |-> "AND", mode |-> "IMMEDIATE", length |-> 2, ticks |-> 2, page_ticks |-> 0],  \* 29
    [type |-> "ROL", method |-> "ROL", mode |-> "ACCUMULATOR", length |-> 1, ticks |-> 2, page_ticks |-> 0],  \* 2a
    [type |-> "ANC", method |-> "unimplemented", mode |-> "IMMEDIATE", length |-> 0, ticks |-> 2, page_ticks |-> 0],  \* 2b
    [type |-> "BIT", method |-> "BIT", mode |-> "ABSOLUTE", length |-> 3, ticks |-> 4, page_ticks |-> 0],  \* 2c
    [type |-> "AND", method |-> "AND", mode |-> "ABSOLUTE", length |-> 3, ticks |-> 4, page_ticks |-> 0],  \* 2d
    [type |-> "ROL", method |-> "ROL", mode |-> "ABSOLUTE", length |-> 3, ticks |-> 6, page_ticks |-> 0],  \* 2e
    [type |-> "RLA", method |-> "unimplemented", mode |-> "ABSOLUTE", length |-> 0, ticks |-> 6, page_ticks |-> 0],  \* 2f
    [type |-> "BMI", method |-> "BMI", mode |-> "RELATIVE", length |-> 2, ticks |-> 2, page_ticks |-> 1],  \* 30
    [type |-> "AND", method |-> "AND", mode |-> "INDIRECT_INDEXED", length |-> 2, ticks |-> 5, page_ticks |-> 1],  \* 31
    [type |-> "KIL", method |-> "unimplemented", mode |-> "IMPLIED", length |-> 0, ticks |-> 2, page_ticks |-> 0],  \* 32
    [type |-> "RLA", method |-> "unimplemented", mode |-> "INDIRECT_INDEXED", length |-> 0, ticks |-> 8, page_ticks |-> 0],  \* 33
    [type |-> "NOP", method |-> "NOP", mode |-> "ZEROPAGE_X", length |-> 2, ticks |-> 4, page_ticks |-> 0],  \* 34
    [type |-> "AND", method |-> "AND", mode |-> "ZEROPAGE_X", length |-> 2, ticks |-> 4, page_ticks |-> 0],  \* 35
    [type |-> "ROL", method |-> "ROL", mode |-> "ZEROPAGE_X", length |-> 2, ticks |-> 6, page_ticks |-> 0],  \* 36
    [type |-> "RLA", method |-> "unimplemented", mode |-> "ZEROPAGE_X", length |-> 0, ticks |-> 6, page_ticks |-> 0],  \* 37
    [type |-> "SEC", method |-> "SEC", mode |-> "IMPLIED", length |-> 1, ticks |-> 2, page_ticks |-> 0],  \* 38
    [type |-> "AND", method |-> "AND", mode |-> "ABSOLUTE_Y", length |-> 3, ticks |-> 4, page_ticks |-> 1],  \* 39
    [type |-> "NOP", method |-> "NOP", mode |-> "IMPLIED", length |-> 1, ticks |-> 2, page_ticks |-> 0],  \* 3a
    [type |-> "RLA", method |-> "unimplemented", mode |-> "ABSOLUTE_Y", length |-> 0, ticks |-> 7, page_ticks |-> 0],  \* 3b
    [type |-> "NOP", method |-> "NOP", mode |-> "ABSOLUTE_X", length |-> 3, ticks |-> 4, page_ticks |-> 1],  \* 3c
    [type |-> "AND", method |-> "AND", mode |-> "ABSOLUTE_X", length |-> 3, ticks |-> 4, page_ticks |-> 1],  \* 3d
    [type |-> "ROL", method |-> "ROL", mode |-> "ABSOLUTE_X", length |-> 3, ticks |-> 7, page_ticks |-> 0],  \* 3e
    [type |-> "RLA", method |-> "unimplemented", mode |-> "ABSOLUTE_X", length |-> 0, ticks |-> 7, page_ticks |-> 0],  \* 3f
    [type |-> "RTI", method |-> "RTI", mode |-> "IMPLIED", length |-> 1, ticks |-> 6, page_ticks |-> 0],  \* 40
    [type |-> "EOR", method |-> "EOR", mode |-> "INDEXED_INDIRECT", length |-> 2, ticks |-> 6, page_ticks |-> 0],  \* 41
    [type |-> "KIL", method |-> "unimplemented", mode |-> "IMPLIED", length |-> 0, ticks |-> 2, page_ticks |-> 0],  \* 42
    [type |-> "SRE", method |-> "unimplemented", mode |-> "INDEXED_INDIRECT", length |-> 0, ticks |-> 8, page_ticks |-> 0],  \* 43
    [type |-> "NOP", method |-> "NOP", mode |-> "ZEROPAGE", length |-> 2, ticks |-> 3, page_ticks |-> 0],  \* 44
    [type |-> "EOR", method |-> "EOR", mode |-> "ZEROPAGE", length |-> 2, ticks |-> 3, page_ticks |-> 0],  \* 45
    [type |-> "LSR", method |-> "LSR", mode |-> "ZEROPAGE", length |-> 2, ticks |-> 5, page_ticks |-> 0],  \* 46
    [type |-> "SRE", method |-> "unimplemented", mode |-> "ZEROPAGE", length |-> 0, ticks |-> 5, page_ticks |-> 0],  \* 47
    [type |-> "PHA", method |-> "PHA", mode |-> "IMPLIED", length |-> 1, ticks |-> 3, page_ticks |-> 0],  \* 48
    [type |-> "EOR", method |-> "EOR", mode |-> "IMMEDIATE", length |-> 2, ticks |-> 2, page_ticks |-> 0],  \* 49
    [type |-> "LSR", method |-> "LSR", mode |-> "ACCUMULATOR", length |-> 1, ticks |-> 2, page_ticks |-> 0],  \* 4a
    [type |-> "ALR", method |-> "unimplemented", mode |-> "IMMEDIATE", length |-> 0, ticks |-> 2, page_ticks |-> 0],  \* 4b
    [type |-> "JMP", method |-> "JMP", mode |-> "ABSOLUTE", length |-> 3, ticks |-> 3, page_ticks |-> 0],  \* 4c
    [type |-> "EOR", method |-> "EOR", mode |-> "ABSOLUTE", length |-> 3, ticks |-> 4, page_ticks |-> 0],  \* 4d
    [type |-> "LSR", method |-> "LSR", mode |-> "ABSOLUTE", length |-> 3, ticks |-> 6, page_ticks |-> 0],  \* 4e
    [type |-> "SRE", method |-> "unimplemented", mode |-> "ABSOLUTE", length |-> 0, ticks |-> 6, page_ticks |-> 0],  \* 4f
    [type |-> "BVC", method |-> "BVC", mode |-> "RELATIVE", length |-> 2, ticks |-> 2, page_ticks |-> 1],  \* 50
    [type |-> "EOR", method |-> "EOR", mode |-> "INDIRECT_INDEXED", length |-> 2, ticks |-> 5, page_ticks |-> 1],  \* 51
    [type |-> "KIL", method |-> "unimplemented", mode |-> "IMPLIED", length |-> 0, ticks |-> 2, page_ticks |-> 0],  \* 52
    [type |-> "SRE", method |-> "unimplemented", mode |-> "INDIRECT_INDEXED", length |-> 0, ticks |-> 8, page_ticks |-> 0],  \* 53
    [type |-> "NOP", method |-> "NOP", mode |-> "ZEROPAGE_X", length |-> 2, ticks |-> 4, page_ticks |-> 0],  \* 54
    [type |-> "EOR", method |-> "EOR", mode |-> "ZEROPAGE_X", length |-> 2, ticks |-> 4, page_ticks |-> 0],  \* 55
    [type |-> "LSR", method |-> "LSR", mode |-> "ZEROPAGE_X", length |-> 2, ticks |-> 6, page_ticks |-> 0],  \* 56
    [type |-> "SRE", method |-> "unimplemented", mode |-> "ZEROPAGE_X", length |-> 0, ticks |-> 6, page_ticks |-> 0],  \* 57
    [type |-> "CLI", method |-> "CLI", mode |-> "IMPLIED", length |-> 1, ticks |-> 2, page_ticks |-> 0],  \* 58
    [type |-> "EOR", method |-> "EOR", mode |-> "ABSOLUTE_Y", length |-> 3, ticks |-> 4, page_ticks |-> 1],  \* 59
    [type |-> "NOP", method |-> "NOP", mode |-> "IMPLIED", length |-> 1, ticks |-> 2, page_ticks |-> 0],  \* 5a
    [type |-> "SRE", method |-> "unimplemented", mode |-> "ABSOLUTE_Y", length |-> 0, ticks |-> 7, page_ticks |-> 0],  \* 5b
    [type |-> "NOP", method |-> "NOP", mode |-> "ABSOLUTE_X", length |-> 3, ticks |-> 4, page_ticks |-> 1],  \* 5c
    [type |-> "EOR", method |-> "EOR", mode |-> "ABSOLUTE_X", length |-> 3, ticks |-> 4, page_ticks |-> 1],  \* 5d
    [type |-> "LSR", method |-> "LSR", mode |-> "ABSOLUTE_X", length |-> 3, ticks |-> 7, page_ticks |-> 0],  \* 5e
    [type |-> "SRE", method |-> "unimplemented", mode |-> "ABSOLUTE_X", length |-> 0, ticks |-> 7, page_ticks |-> 0],  \* 5f
    [type |-> "RTS", method |-> "RTS", mode |-> "IMPLIED", length |-> 1, ticks |-> 6, page_ticks |-> 0],  \* 60
    [type |-> "ADC", method |-> "ADC", mode |-> "INDEXED_INDIRECT", length |-> 2, ticks |-> 6, page_ticks |-> 0],  \* 61
    [type |-> "KIL", method |-> "unimplemented", mode |-> "IMPLIED", length |-> 0, ticks |-> 2, page_ticks |-> 0],  \* 62
    [type |-> "RRA", method |-> "unimplemented", mode |-> "INDEXED_INDIRECT", length |-> 0, ticks |-> 8, page_ticks |-> 0],  \* 63
    [type |-> "NOP", method |-> "NOP", mode |-> "ZEROPAGE", length |-> 2, ticks |-> 3, page_ticks |-> 0],  \* 64
    [type |-> "ADC", method |-> "ADC", mode |-> "ZEROPAGE", length |-> 2, ticks |-> 3, page_ticks |-> 0],  \* 65
    [type |-> "ROR", method |-> "ROR", mode |-> "ZEROPAGE", length |-> 2, ticks |-> 5, page_ticks |-> 0],  \* 66
    [type |-> "RRA", method |-> "unimplemented", mode |-> "ZEROPAGE", length |-> 0, ticks |-> 5, page_ticks |-> 0],  \* 67
    [type |-> "PLA", method |-> "PLA", mode |-> "IMPLIED", length |-> 1, ticks |-> 4, page_ticks |-> 0],  \* 68
    [type |-> "ADC", method |-> "ADC", mode |-> "IMMEDIATE", length |-> 2, ticks |-> 2, page_ticks |-> 0],  \* 69
    [type |-> "ROR", method |-> "ROR", mode |-> "ACCUMULATOR", length |-> 1, ticks |-> 2, page_ticks |-> 0],  \* 6a
    [type |-> "ARR", method |-> "unimplemented", mode |-> "IMMEDIATE", length |-> 0, ticks |-> 2, page_ticks |-> 0],  \* 6b
    [type |-> "JMP", method |-> "JMP", mode |-> "INDIRECT", length |-> 3, ticks |-> 5, page_ticks |-> 0],  \* 6c
    [type |-> "ADC", method |-> "ADC", mode |-> "ABSOLUTE", length |-> 3, ticks |-> 4, page_ticks |-> 0],  \* 6d
    [type |-> "ROR", method |-> "ROR", mode |-> "ABSOLUTE", length |-> 3, ticks |-> 6, page_ticks |-> 0],  \* 6e
    [type |-> "RRA", method |-> "unimplemented", mode |-> "ABSOLUTE", length |-> 0, ticks |-> 6, page_ticks |-> 0],  \* 6f
    [type |-> "BVS", method |-> "BVS", mode |-> "RELATIVE", length |-> 2, ticks |-> 2, page_ticks |-> 1],  \* 70
    [type |-> "ADC", method |-> "ADC", mode |-> "INDIRECT_INDEXED", length |-> 2, ticks |-> 5, page_ticks |-> 1],  \* 71
    [type |-> "KIL", method |-> "unimplemented", mode |-> "IMPLIED", length |-> 0, ticks |-> 2, page_ticks |-> 0],  \* 72
    [type |-> "RRA", method |-> "unimplemented", mode |-> "INDIRECT_INDEXED", length |-> 0, ticks |-> 8, page_ticks |-> 0],  \* 73
    [type |-> "NOP", method |-> "NOP", mode |-> "ZEROPAGE_X", length |-> 2, ticks |-> 4, page_ticks |-> 0],  \* 74
    [type |-> "ADC", method |-> "ADC", mode |-> "ZEROPAGE_X", length |-> 2, ticks |-> 4, page_ticks |-> 0],  \* 75
    [type |-> "ROR", method |-> "ROR", mode |-> "ZEROPAGE_X", length |-> 2, ticks |-> 6, page_ticks |-> 0],  \* 76
    [type |-> "RRA", method |-> "unimplemented", mode |-> "ZEROPAGE_X", length |-> 0, ticks |-> 6, page_ticks |-> 0],  \* 77
    [type |-> "SEI", method |-> "SEI", mode |-> "IMPLIED", length |-> 1, ticks |-> 2, page_ticks |-> 0],  \* 78
    [type |-> "ADC", method |-> "ADC", mode |-> "ABSOLUTE_Y", length |-> 3, ticks |-> 4, page_ticks |-> 1],  \* 79
    [type |-> "NOP", method |-> "NOP", mode |-> "IMPLIED", length |-> 1, ticks |-> 2, page_ticks |-> 0],  \* 7a
    [type |-> "RRA", method |-> "unimplemented", mode |-> "ABSOLUTE_Y", length |-> 0, ticks |-> 7, page_ticks |-> 0],  \* 7b
    [type |-> "NOP", method |-> "NOP", mode |-> "ABSOLUTE_X", length |-> 3, ticks |-> 4, page_ticks |-> 1],  \* 7c
    [type |-> "ADC", method |-> "ADC", mode |-> "ABSOLUTE_X", length |-> 3, ticks |-> 4, page_ticks |-> 1],  \* 7d
    [type |-> "ROR", method |-> "ROR", mode |-> "ABSOLUTE_X", length |-> 3, ticks |-> 7, page_ticks |-> 0],  \* 7e
    [type |-> "RRA", method |-> "unimplemented", mode |-> "ABSOLUTE_X", length |-> 0, ticks |-> 7, page_ticks |-> 0],  \* 7f
    [type |-> "NOP", method |-> "NOP", mode |-> "IMMEDIATE", length |-> 2, ticks |-> 2, page_ticks |-> 0],  \* 80
    [type |-> "STA", method |-> "STA", mode |-> "INDEXED_INDIRECT", length |-> 2, ticks |-> 6, page_ticks |-> 0],  \* 81
    [type |-> "NOP", method |-> "NOP", mode |-> "IMMEDIATE", length |-> 0, ticks |-> 2, page_ticks |-> 0],  \* 82
    [type |-> "SAX", method |-> "unimplemented", mode |-> "INDEXED_INDIRECT", length |-> 0, ticks |-> 6, page_ticks |-> 0],  \* 83
    [type |-> "STY", method |-> "STY", mode |-> "ZEROPAGE", length |-> 2, ticks |-> 3, page_ticks |-> 0],  \* 84
    [type |-> "STA", method |-> "STA", mode |-> "ZEROPAGE", length |-> 2, ticks |-> 3, page_ticks |-> 0],  \* 85
    [type |-> "STX", method |-> "STX", mode |-> "ZEROPAGE", length |-> 2, ticks |-> 3, page_ticks |-> 0],  \* 86
    [type |-> "SAX", method |-> "unimplemented", mode |-> "ZEROPAGE", length |-> 0, ticks |-> 3, page_ticks |-> 0],  \* 87
    [type |-> "DEY", method |-> "DEY", mode |-> "IMPLIED", length |-> 1, ticks |-> 2, page_ticks |-> 0],  \* 88
    [type |-> "NOP", method |-> "NOP", mode |-> "IMMEDIATE", length |-> 0, ticks |-> 2, page_ticks |-> 0],  \* 89
    [type |-> "TXA", method |-> "TXA", mode |-> "IMPLIED", length |-> 1, ticks |-> 2, page_ticks |-> 0],  \* 8a
    [type |-> "XAA", method |-> "unimplemented", mode |-> "IMMEDIATE", length |-> 0, ticks |-> 2, page_ticks |-> 0],  \* 8b
    [type |-> "STY", method |-> "STY", mode |-> "ABSOLUTE", length |-> 3, ticks |-> 4, page_ticks |-> 0],  \* 8c
    [type |-> "STA", method |-> "STA", mode |-> "ABSOLUTE", length |-> 3, ticks |-> 4, page_ticks |-> 0],  \* 8d
    [type |-> "STX", method |-> "STX", mode |-> "ABSOLUTE", length |-> 3, ticks |-> 4, page_ticks |-> 0],  \* 8e
    [type |-> "SAX", method |-> "unimplemented", mode |-> "ABSOLUTE", length |-> 0, ticks |-> 4, page_ticks |-> 0],  \* 8f
    [type |-> "BCC", method |-> "BCC", mode |-> "RELATIVE", length |-> 2, ticks |-> 2, page_ticks |-> 1],  \* 90
    [type |-> "STA", method |-> "STA", mode |-> "INDIRECT_INDEXED", length |-> 2, ticks |-> 6, page_ticks |-> 0],  \* 91
    [type |-> "KIL", method |-> "unimplemented", mode |-> "IMPLIED", length |-> 0, ticks |-> 2, page_ticks |-> 0],  \* 92
    [type |-> "AHX", method |-> "unimplemented", mode |-> "INDIRECT_INDEXED", length |-> 0, ticks |-> 6, page_ticks |-> 0],  \* 93
    [type |-> "STY", method |-> "STY", mode |-> "ZEROPAGE_X", length |-> 2, ticks |-> 4, page_ticks |-> 0],  \* 94
    [type |-> "STA", method |-> "STA", mode |-> "ZEROPAGE_X", length |-> 2, ticks |-> 4, page_ticks |-> 0],  \* 95
    [type |-> "STX", method |-> "STX", mode |-> "ZEROPAGE_Y", length |-> 2, ticks |-> 4, page_ticks |-> 0],  \* 96
    [type |-> "SAX", method |-> "unimplemented", mode |-> "ZEROPAGE_Y", length |-> 0, ticks |-> 4, page_ticks |-> 0],  \* 97
    [type |-> "TYA", method |-> "TYA", mode |-> "IMPLIED", length |-> 1, ticks |-> 2, page_ticks |-> 0],  \* 98
    [type |-> "STA", method |-> "STA", mode |-> "ABSOLUTE_Y", length |-> 3, ticks |-> 5, page_ticks |-> 0],  \* 99
    [type |-> "TXS", method |-> "TXS", mode |-> "IMPLIED", length |-> 1, ticks |-> 2, page_ticks |-> 0],  \* 9a
    [type |-> "TAS", method |-> "unimplemented", mode |-> "ABSOLUTE_Y", length |-> 0, ticks |-> 5, page_ticks |-> 0],  \* 9b
    [type |-> "SHY", method |-> "unimplemented", mode |-> "ABSOLUTE_X", length |-> 0, ticks |-> 5, page_ticks |-> 0],  \* 9c
    [type |-> "STA", method |-> "STA", mode |-> "ABSOLUTE_X", length |-> 3, ticks |-> 5, page_ticks |-> 0],  \* 9d
    [type |-> "SHX", method |-> "unimplemented", mode |-> "ABSOLUTE_Y", length |-> 0, ticks |-> 5, page_ticks |-> 0],  \* 9e
    [type |-> "AHX", method |-> "unimplemented", mode |-> "ABSOLUTE_Y", length |-> 0, ticks |-> 5, page_ticks |-> 0],  \* 9f
    [type |-> "LDY", method |-> "LDY", mode |-> "IMMEDIATE", length |-> 2, ticks |-> 2, page_ticks |-> 0],  \* a0
    [type |-> "LDA", method |-> "LDA", mode |-> "INDEXED_INDIRECT", length |-> 2, ticks |-> 6, page_ticks |-> 0],  \* a1
    [type |-> "LDX", method |-> "LDX", mode |-> "IMMEDIATE", length |-> 2, ticks |-> 2, page_ticks |-> 0],  \* a2
    [type |-> "LAX", method |-> "unimplemented", mode |-> "INDEXED_INDIRECT", length |-> 0, ticks |-> 6, page_ticks |-> 0],  \* a3
    [type |-> "LDY", method |-> "LDY", mode |-> "ZEROPAGE", length |-> 2, ticks |-> 3, page_ticks |-> 0],  \* a4
    [type |-> "LDA", method |-> "LDA", mode |-> "ZEROPAGE", length |-> 2, ticks |-> 3, page_ticks |-> 0],  \* a5
    [type |-> "LDX", method |-> "LDX", mode |-> "ZEROPAGE", length |-> 2, ticks |-> 3, page_ticks |-> 0],  \* a6
    [type |-> "LAX", method |-> "unimplemented", mode |-> "ZEROPAGE", length |-> 0, ticks |-> 3, page_ticks |-> 0],  \* a7
    [type |-> "TAY", method |-> "TAY", mode |-> "IMPLIED", length |-> 1, ticks |-> 2, page_ticks |-> 0],  \* a8
    [type |-> "LDA", method |-> "LDA", mode |-> "IMMEDIATE", length |-> 2, ticks |-> 2, page_ticks |-> 0],  \* a9
    [type |-> "TAX", method |-> "TAX", mode |-> "IMPLIED", length |-> 1, ticks |-> 2, page_ticks |-> 0],  \* aa
    [type |-> "LAX", method |-> "unimplemented", mode |-> "IMMEDIATE", length |-> 0, ticks |-> 2, page_ticks |-> 0],  \* ab
    [type |-> "LDY", method |-> "LDY", mode |-> "ABSOLUTE", length |-> 3, ticks |-> 4, page_ticks |-> 0],  \* ac
    [type |-> "LDA", method |-> "LDA", mode |-> "ABSOLUTE", length |-> 3, ticks |-> 4, page_ticks |-> 0],  \* ad
    [type |-> "LDX", method |-> "LDX", mode |-> "ABSOLUTE", length |-> 3, ticks |-> 4, page_ticks |-> 0],  \* ae
    [type |-> "LAX", method |-> "unimplemented", mode |-> "ABSOLUTE", length |-> 0, ticks |-> 4, page_ticks |-> 0],  \* af
    [type |-> "BCS", method |-> "BCS", mode |-> "RELATIVE", length |-> 2, ticks |-> 2, page_ticks |-> 1],  \* b0
    [type |-> "LDA", method |-> "LDA", mode |-> "INDIRECT_INDEXED", length |-> 2, ticks |-> 5, page_ticks |-> 1],  \* b1
    [type |-> "KIL", method |-> "unimplemented", mode |-> "IMPLIED", length |-> 0, ticks |-> 2, page_ticks |-> 0],  \* b2
    [type |-> "LAX", method |-> "unimplemented", mode |-> "INDIRECT_INDEXED", length |-> 0, ticks |-> 5, page_ticks |-> 1],  \* b3
    [type |-> "LDY", method |-> "LDY", mode |-> "ZEROPAGE_X", length |-> 2, ticks |-> 4, page_ticks |-> 0],  \* b4
    [type |-> "LDA", method |-> "LDA", mode |-> "ZEROPAGE_X", length |-> 2, ticks |-> 4, page_ticks |-> 0],  \* b5
    [type |-> "LDX", method |-> "LDX", mode |-> "ZEROPAGE_Y", length |-> 2, ticks |-> 4, page_ticks |-> 0],  \* b6
    [type |-> "LAX", method |-> "unimplemented", mode |-> "ZEROPAGE_Y", length |-> 0, ticks |-> 4, page_ticks |-> 0],  \* b7
    [type |-> "CLV", method |-> "CLV", mode |-> "IMPLIED", length |-> 1, ticks |-> 2, page_ticks |-> 0],  \* b8
    [type |-> "LDA", method |-> "LDA", mode |-> "ABSOLUTE_Y", length |-> 3, ticks |-> 4, page_ticks |-> 1],  \* b9
    [type |-> "TSX", method |-> "TSX", mode |-> "IMPLIED", length |-> 1, ticks |-> 2, page_ticks |-> 0],  \* ba
    [type |-> "LAS", method |-> "unimplemented", mode |-> "ABSOLUTE_Y", length |-> 0, ticks |-> 4, page_ticks |-> 1],  \* bb
    [type |-> "LDY", method |-> "LDY", mode |-> "ABSOLUTE_X", length |-> 3, ticks |-> 4, page_ticks |-> 1],  \* bc
    [type |-> "LDA", method |-> "LDA", mode |-> "ABSOLUTE_X", length |-> 3, ticks |-> 4, page_ticks |-> 1],  \* bd
    [type |-> "LDX", method |-> "LDX", mode |-> "ABSOLUTE_Y", length |-> 3, ticks |-> 4, page_ticks |-> 1],  \* be
    [type |-> "LAX", method |-> "unimplemented", mode |-> "ABSOLUTE_Y", length |-> 0, ticks |-> 4, page_ticks |-> 1],  \* bf
    [type |-> "CPY", method |-> "CPY", mode |-> "IMMEDIATE", length |-> 2, ticks |-> 2, page_ticks |-> 0],  \* c0
    [type |-> "CMP", method |-> "CMP", mode |-> "INDEXED_INDIRECT", length |-> 2, ticks |-> 6, page_ticks |-> 0],  \* c1
    [type |-> "NOP", method |-> "NOP", mode |-> "IMMEDIATE", length |-> 0, ticks |-> 2, page_ticks |-> 0],  \* c2
    [type |-> "DCP", method |-> "unimplemented", mode |-> "INDEXED_INDIRECT", length |-> 0, ticks |-> 8, page_ticks |-> 0],  \* c3
    [type |-> "CPY", method |-> "CPY", mode |-> "ZEROPAGE", length |-> 2, ticks |-> 3, page_ticks |-> 0],  \* c4
    [type |-> "CMP", method |-> "CMP", mode |-> "ZEROPAGE", length |-> 2, ticks |-> 3, page_ticks |-> 0],  \* c5
    [type |-> "DEC", method |-> "DEC", mode |-> "ZEROPAGE", length |-> 2, ticks |-> 5, page_ticks |-> 0],  \* c6
    [type |-> "DCP", method |-> "unimplemented", mode |-> "ZEROPAGE", length |-> 0, ticks |-> 5, page_ticks |-> 0],  \* c7
    [type |-> "INY", method |-> "INY", mode |-> "IMPLIED", length |-> 1, ticks |-> 2, page_ticks |-> 0],  \* c8
    [type |-> "CMP", method |-> "CMP", mode |-> "IMMEDIATE", length |-> 2, ticks |-> 2, page_ticks |-> 0],  \* c9
    [type |-> "DEX", method |-> "DEX", mode |-> "IMPLIED", length |-> 1, ticks |-> 2, page_ticks |-> 0],  \* ca
    [type |-> "AXS", method |-> "unimplemented", mode |-> "IMMEDIATE", length |-> 0, ticks |-> 2, page_ticks |-> 0],  \* cb
    [type |-> "CPY", method |-> "CPY", mode |-> "ABSOLUTE", length |-> 3, ticks |-> 4, page_ticks |-> 0],  \* cc
    [type |-> "CMP", method |-> "CMP", mode |-> "ABSOLUTE", length |-> 3, ticks |-> 4, page_ticks |-> 0],  \* cd
    [type |-> "DEC", method |-> "DEC", mode |-> "ABSOLUTE", length |-> 3, ticks |-> 6, page_ticks |-> 0],  \* ce
    [type |-> "DCP", method |-> "unimplemented", mode |-> "ABSOLUTE", length |-> 0, ticks |-> 6, page_ticks |-> 0],  \* cf
    [type |-> "BNE", method |-> "BNE", mode |-> "RELATIVE", length |-> 2, ticks |-> 2, page_ticks |-> 1],  \* d0
    [type |-> "CMP", method |-> "CMP", mode |-> "INDIRECT_INDEXED", length |-> 2, ticks |-> 5, page_ticks |-> 1],  \* d1
    [type |-> "KIL", method |-> "unimplemented", mode |-> "IMPLIED", length |-> 0, ticks |-> 2, page_ticks |-> 0],  \* d2
    [type |-> "DCP", method |-> "unimplemented", mode |-> "INDIRECT_INDEXED", length |-> 0, ticks |-> 8, page_ticks |-> 0],  \* d3
    [type |-> "NOP", method |-> "NOP", mode |-> "ZEROPAGE_X", length |-> 2, ticks |-> 4, page_ticks |-> 0],  \* d4
    [type |-> "CMP", method |-> "CMP", mode |-> "ZEROPAGE_X", length |-> 2, ticks |-> 4, page_ticks |-> 0],  \* d5
    [type |-> "DEC", method |-> "DEC", mode |-> "ZEROPAGE_X", length |-> 2, ticks |-> 6, page_ticks |-> 0],  \* d6
    [type |-> "DCP", method |-> "unimplemented", mode |-> "ZEROPAGE_X", length |-> 0, ticks |-> 6, page_ticks |-> 0],  \* d7
    [type |-> "CLD", method |-> "CLD", mode |-> "IMPLIED", length |-> 1, ticks |-> 2, page_ticks |-> 0],  \* d8
    [type |-> "CMP", method |-> "CMP", mode |-> "ABSOLUTE_Y", length |-> 3, ticks |-> 4, page_ticks |-> 1],  \* d9
    [type |-> "NOP", method |-> "NOP", mode |-> "IMPLIED", length |-> 1, ticks |-> 2, page_ticks |-> 0],  \* da
    [type |-> "DCP", method |-> "unimplemented", mode |-> "ABSOLUTE_Y", length |-> 0, ticks |-> 7, page_ticks |-> 0],  \* db
    [type |-> "NOP", method |-> "NOP", mode |-> "ABSOLUTE_X", length |-> 3, ticks |-> 4, page_ticks |-> 1],  \* dc
    [type |-> "CMP", method |-> "CMP", mode |-> "ABSOLUTE_X", length |-> 3, ticks |-> 4, page_ticks |-> 1],  \* dd
    [type |-> "DEC", method |-> "DEC", mode |-> "ABSOLUTE_X", length |-> 3, ticks |-> 7, page_ticks |-> 0],  \* de
    [type |-> "DCP", method |-> "unimplemented", mode |-> "ABSOLUTE_X", length |-> 0, ticks |-> 7, page_ticks |-> 0],  \* df
    [type |-> "CPX", method |-> "CPX", mode |-> "IMMEDIATE", length |-> 2, ticks |-> 2, page_ticks |-> 0],  \* e0
    [type |-> "SBC", method |-> "SBC", mode |-> "INDEXED_INDIRECT", length |-> 2, ticks |-> 6, page_ticks |-> 0],  \* e1
    [type |-> "NOP", method |-> "NOP", mode |-> "IMMEDIATE", length |-> 0, ticks |-> 2, page_ticks |-> 0],  \* e2
    [type |-> "ISC", method |-> "unimplemented", mode |-> "INDEXED_INDIRECT", length |-> 0, ticks |-> 8, page_ticks |-> 0],  \* e3
    [type |-> "CPX", method |-> "CPX", mode |-> "ZEROPAGE", length |-> 2, ticks |-> 3, page_ticks |-> 0],  \* e4
    [type |-> "SBC", method |-> "SBC", mode |-> "ZEROPAGE", length |-> 2, ticks |-> 3, page_ticks |-> 0],  \* e5
    [type |-> "INC", method |-> "INC", mode |-> "ZEROPAGE", length |-> 2, ticks |-> 5, page_ticks |-> 0],  \* e6
    [type |-> "ISC", method |-> "unimplemented", mode |-> "ZEROPAGE", length |-> 0, ticks |-> 5, page_ticks |-> 0],  \* e7
    [type |-> "INX", method |-> "INX", mode |-> "IMPLIED", length |-> 1, ticks |-> 2, page_ticks |-> 0],  \* e8
    [type |-> "SBC", method |-> "SBC", mode |-> "IMMEDIATE", length |-> 2, ticks |-> 2, page_ticks |-> 0],  \* e9
    [type |-> "NOP", method |-> "NOP", mode |-> "IMPLIED", length |-> 1, ticks |-> 2, page_ticks |-> 0],  \* ea
    [type |-> "SBC", method |-> "SBC", mode |-> "IMMEDIATE", length |-> 0, ticks |-> 2, page_ticks |-> 0],  \* eb
    [type |-> "CPX", method |-> "CPX", mode |-> "ABSOLUTE", length |-> 3, ticks |-> 4, page_ticks |-> 0],  \* ec
    [type |-> "SBC", method |-> "SBC", mode |-> "ABSOLUTE", length |-> 3, ticks |-> 4, page_ticks |-> 0],  \* ed
    [type |-> "INC", method |-> "INC", mode |-> "ABSOLUTE", length |-> 3, ticks |-> 6, page_ticks |-> 0],  \* ee
    [type |-> "ISC", method |-> "unimplemented", mode |-> "ABSOLUTE", length |-> 0, ticks |-> 6, page_ticks |-> 0],  \* ef
    [type |-> "BEQ", method |-> "BEQ", mode |-> "RELATIVE", length |-> 2, ticks |-> 2, page_ticks |-> 1],  \* f0
    [type |-> "SBC", method |-> "SBC", mode |-> "INDIRECT_INDEXED", length |-> 2, ticks |-> 5, page_ticks |-> 1],  \* f1
    [type |-> "KIL", method |-> "unimplemented", mode |-> "IMPLIED", length |-> 0, ticks |-> 2, page_ticks |-> 0],  \* f2
    [type |-> "ISC", method |-> "unimplemented", mode |-> "INDIRECT_INDEXED", length |-> 0, ticks |-> 8, page_ticks |-> 0],  \* f3
    [type |-> "NOP", method |-> "NOP", mode |-> "ZEROPAGE_X", length |-> 2, ticks |-> 4, page_ticks |-> 0],  \* f4
    [type |-> "SBC", method |-> "SBC", mode |-> "ZEROPAGE_X", length |-> 2, ticks |-> 4, page_ticks |-> 0],  \* f5
    [type |-> "INC", method |-> "INC", mode |-> "ZEROPAGE_X", length |-> 2, ticks |-> 6, page_ticks |-> 0],  \* f6
    [type |-> "ISC", method |-> "unimplemented", mode |-> "ZEROPAGE_X", length |-> 0, ticks |-> 6, page_ticks |-> 0],  \* f7
    [type |-> "SED", method |-> "SED", mode |-> "IMPLIED", length |-> 1, ticks |-> 2, page_ticks |-> 0],  \* f8
    [type |-> "SBC", method |-> "SBC", mode |-> "ABSOLUTE_Y", length |-> 3, ticks |-> 4, page_ticks |-> 1],  \* f9
    [type |-> "NOP", method |-> "NOP", mode |-> "IMPLIED", length |-> 1, ticks |-> 2, page_ticks |-> 0],  \* fa
    [type |-> "ISC", method |-> "unimplemented", mode |-> "ABSOLUTE_Y", length |-> 0, ticks |-> 7, page_ticks |-> 0],  \* fb
    [type |-> "NOP", method |-> "NOP", mode |-> "ABSOLUTE_X", length |-> 3, ticks |-> 4, page_ticks |-> 1],  \* fc
    [type |-> "SBC", method |-> "SBC", mode |-> "ABSOLUTE_X", length |-> 3, ticks |-> 4, page_ticks |-> 1],  \* fd
    [type |-> "INC", method |-> "INC", mode |-> "ABSOLUTE_X", length |-> 3, ticks |-> 7, page_ticks |-> 0],  \* fe
    [type |-> "ISC", method |-> "unimplemented", mode |-> "ABSOLUTE_X", length |-> 0, ticks |-> 7, page_ticks |-> 0]   \* ff
>>

---------------------------------------------------------------------------
(* CPU: the instruction handlers *)

\* ADC that leaves the carry out of the sum.
ADC_without_carry(m, instruction, data) ==
    Bind(read_memory(m, data, instruction.mode), LAMBDA r :
    setZN([r EXCEPT !.cpu.A = (r.cpu.A + r.ret) % 256],
          (r.cpu.A + r.ret) % 256))

ADC(m, instruction, data) ==
    Bind(read_memory(m, data, instruction.mode), LAMBDA r :
    LET src == r.ret
        A == r.cpu.A
        signed_result == src + A + AsInt(r.cpu.C)
    IN  setZN([r EXCEPT
                 !.cpu.V = (BitAnd(BitAnd(BitNot(BitXor(A, src)),
                                          BitXor(A, signed_result)),
                                   \h80) # 0),
                 !.cpu.A = (A + src + AsInt(r.cpu.C)) % 256,
                 !.cpu.C = (signed_result > \hFF)],
              (A + src + AsInt(r.cpu.C)) % 256))

AND(m, instruction, data) ==
    Bind(read_memory(m, data, instruction.mode), LAMBDA r :
    LET v == BitAnd(r.cpu.A, r.ret) IN setZN([r EXCEPT !.cpu.A = v], v))

\* The operand of a shift or rotate: A in ACCUMULATOR mode, memory otherwise.
ShiftSource(m, instruction, data) ==
    IF instruction.mode = "ACCUMULATOR" THEN Ret(m, m.cpu.A)
    ELSE read_memory(m, data, instruction.mode)

ShiftStore(m, instruction, data, src) ==
    IF ~Ok(m) THEN m
    ELSE IF instruction.mode = "ACCUMULATOR" THEN [m EXCEPT !.cpu.A = src]
    ELSE write_memory(m, data, instruction.mode, src)

ASL(m, instruction, data) ==
    Bind(ShiftSource(m, instruction, data), LAMBDA r :
    LET src == BitAnd(r.ret * 2, \hFF)
    IN  ShiftStore(setZN([r EXCEPT !.cpu.C = (r.ret \div 128 # 0)], src),
                   instruction, data, src))

\* A branch handler whose condition is taken.
Branch(m, instruction, data, taken) ==
    IF ~Ok(m) \/ ~taken THEN m
    ELSE Bind(address_for_mode(m, data, instruction.mode), LAMBDA r :
         [r EXCEPT !.cpu.PC = r.ret, !.cpu.jumped = TRUE])

BCC(m, instruction, data) == Branch(m, instruction, data, ~m.cpu.C)
BCS(m, instruction, data) == Branch(m, instruction, data, m.cpu.C)
BEQ(m, instruction, data) == Branch(m, instruction, data, m.cpu.Z)

BIT(m, instruction, data) ==
    Bind(read_memory(m, data, instruction.mode), LAMBDA r :
    LET src == r.ret
    IN  [r EXCEPT !.cpu.V = (BitAnd(src \div 64, 1) # 0),
                  !.cpu.Z = (BitAnd(src, r.cpu.A) = 0),
                  !.cpu.N = (src \div 128 = 1)])

BMI(m, instruction, data) == Branch(m, instruction, data, m.cpu.N)
BNE(m, instruction, data) == Branch(m, instruction, data, ~m.cpu.Z)
BPL(m, instruction, data) == Branch(m, instruction, data, ~m.cpu.N)

\* BRK pushing the address of the byte after the opcode.
BRK_pushing_next_address(m, instruction, data) ==
    IF ~Ok(m) THEN m
    ELSE LET pc == m.cpu.PC + 1
         IN  Bind(read_memory(push_status(
                      stack_push(stack_push([m EXCEPT !.cpu.PC = pc],
                                            BitAnd(pc \div 256, \hFF)),
                                 BitAnd(pc, \hFF))),
                  IRQ_BRK_VECTOR, "ABSOLUTE"), LAMBDA lo :
             Bind(read_memory(lo, IRQ_BRK_VECTOR + 1, "ABSOLUTE"), LAMBDA hi :
             [hi EXCEPT !.cpu.PC = Word(lo.ret, hi.ret), !.cpu.I = TRUE,
                        !.cpu.jumped = TRUE]))

BRK(m, instruction, data) ==
    IF ~Ok(m) THEN m
    ELSE LET pc == m.cpu.PC + 2
             m1 == stack_push([m EXCEPT !.cpu.PC = pc],
                              BitAnd(pc \div 256, \hFF))
             m2 == stack_push(m1, BitAnd(pc, \hFF))
             m3 == push_status(m2)
             m4 == [m3 EXCEPT !.cpu.I = TRUE]
         IN  Bind(read_memory(m4, IRQ_BRK_VECTOR, "ABSOLUTE"), LAMBDA lo :
             Bind(read_memory(lo, IRQ_BRK_VECTOR + 1, "ABSOLUTE"), LAMBDA hi :
             [hi EXCEPT !.cpu.PC = Word(lo.ret, hi.ret),
                        !.cpu.jumped = TRUE]))

BVC(m, instruction, data) == Branch(m, instruction, data, ~m.cpu.V)
BVS(m, instruction, data) == Branch(m, instruction, data, m.cpu.V)

CLC(m, instruction, data) == [m EXCEPT !.cpu.C = FALSE]
CLD(m, instruction, data) == [m EXCEPT !.cpu.D = FALSE]
CLI(m, instruction, data) == [m EXCEPT !.cpu.I = FALSE]
CLV(m, instruction, data) == [m EXCEPT !.cpu.V = FALSE]

\* CMP, CPX and CPY against the register value reg.
Compare(m, instruction, data, reg) ==
    Bind(read_memory(m, data, instruction.mode), LAMBDA r :
    setZN([r EXCEPT !.cpu.C = (reg >= r.ret)], reg - r.ret))

CMP(m, instruction, data) == Compare(m, instruction, data, m.cpu.A)
CPX(m, instruction, data) == Compare(m, instruction, data, m.cpu.X)
CPY(m, instruction, data) == Compare(m, instruction, data, m.cpu.Y)

DEC(m, instruction, data) ==
    Bind(read_memory(m, data, instruction.mode), LAMBDA r :
    LET src == BitAnd(r.ret - 1, \hFF)
    IN  setZN(write_memory(r, data, instruction.mode, src), src))

DEX(m, instruction, data) ==
    LET v == BitAnd(m.cpu.X - 1, \hFF) IN setZN([m EXCEPT !.cpu.X = v], v)

DEY(m, instruction, data) ==
    LET v == BitAnd(m.cpu.Y - 1, \hFF) IN setZN([m EXCEPT !.cpu.Y = v], v)

EOR(m, instruction, data) ==
    Bind(read_memory(m, data, instruction.mode), LAMBDA r :
    LET v == BitXor(r.cpu.A, r.ret) IN setZN([r EXCEPT !.cpu.A = v], v))

INC(m, instruction, data) ==
    Bind(read_memory(m, data, instruction.mode), LAMBDA r :
    LET src == BitAnd(r.ret + 1, \hFF)
    IN  setZN(write_memory(r, data, instruction.mode, src), src))

INX(m, instruction, data) ==
    LET v == BitAnd(m.cpu.X + 1, \hFF) IN setZN([m EXCEPT !.cpu.X = v], v)

INY(m, instruction, data) ==
    LET v == BitAnd(m.cpu.Y + 1, \hFF) IN setZN([m EXCEPT !.cpu.Y = v], v)

JMP(m, instruction, data) ==
    Bind(address_for_mode(m, data, instruction.mode), LAMBDA r :
    [r EXCEPT !.cpu.PC = r.ret, !.cpu.jumped = TRUE])

JSR(m, instruction, data) ==
    IF ~Ok(m) THEN m
    ELSE LET pc == m.cpu.PC + 2
             m1 == stack_push([m EXCEPT !.cpu.PC = pc],
                              BitAnd(pc \div 256, \hFF))
             m2 == stack_push(m1, BitAnd(pc, \hFF))
         IN  Bind(address_for_mode(m2, data, instruction.mode), LAMBDA r :
             [r EXCEPT !.cpu.PC = r.ret, !.cpu.jumped = TRUE])

\* LDA that leaves Z and N alone.
LDA_without_flags(m, instruction, data) ==
    Bind(read_memory(m, data, instruction.mode), LAMBDA r :
    [r EXCEPT !.cpu.A = r.ret])

LDA(m, instruction, data) ==
    Bind(read_memory(m, data, instruction.mode), LAMBDA r :
    setZN([r EXCEPT !.cpu.A = r.ret], r.ret))

LDX(m, instruction, data) ==
    Bind(read_memory(m, data, instruction.mode), LAMBDA r :
    setZN([r EXCEPT !.cpu.X = r.ret], r.ret))

LDY(m, instruction, data) ==
    Bind(read_memory(m, data, instruction.mode), LAMBDA r :
    setZN([r EXCEPT !.cpu.Y = r.ret], r.ret))

LSR(m, instruction, data) ==
    Bind(ShiftSource(m, instruction, data), LAMBDA r :
    LET src == r.ret \div 2
    IN  ShiftStore(setZN([r EXCEPT !.cpu.C = (BitAnd(r.ret, 1) # 0)], src),
                   instruction, data, src))

NOP(m, instruction, data) == m

ORA(m, instruction, data) ==
    Bind(read_memory(m, data, instruction.mode), LAMBDA r :
    LET v == BitOr(m.cpu.A, r.ret) IN setZN([r EXCEPT !.cpu.A = v], v))

PHA(m, instruction, data) == stack_push(m, m.cpu.A)

PHP(m, instruction, data) == push_status(m)

PLA(m, instruction, data) ==
    Bind(stack_pop(m), LAMBDA r : setZN([r EXCEPT !.cpu.A = r.ret], r.ret))

PLP(m, instruction, data) ==
    Bind(stack_pop(m), LAMBDA r : set_status(r, r.ret))

ROL(m, instruction, data) ==
    Bind(ShiftSource(m, instruction, data), LAMBDA r :
    LET old_c == AsInt(r.cpu.C)
        src == BitAnd(BitOr(r.ret * 2, old_c), \hFF)
    IN  ShiftStore(setZN([r EXCEPT
                            !.cpu.C = (BitAnd(r.ret \div 128, 1) # 0)],
                         src),
                   instruction, data, src))

ROR(m, instruction, data) ==
    Bind(ShiftSource(m, instruction, data), LAMBDA r :
    LET old_c == AsInt(r.cpu.C)
        src == BitAnd(BitOr(r.ret \div 2, old_c * 128), \hFF)
    IN  ShiftStore(setZN([r EXCEPT !.cpu.C = (BitAnd(r.ret, 1) # 0)], src),
                   instruction, data, src))

RTI(m, instruction, data) ==
    Bind(stack_pop(m), LAMBDA p :
    Bind(stack_pop(set_status(p, p.ret)), LAMBDA lb :
    Bind(stack_pop(lb), LAMBDA hb :
    [hb EXCEPT !.cpu.PC = BitOr(hb.ret * 256, lb.ret),
               !.cpu.jumped = TRUE])))

\* RTS that returns to the address on the stack, as RTI does.
RTS_without_increment(m, instruction, data) ==
    Bind(stack_pop(m), LAMBDA lb :
    Bind(stack_pop(lb), LAMBDA hb :
    [hb EXCEPT !.cpu.PC = BitOr(hb.ret * 256, lb.ret),
               !.cpu.jumped = TRUE]))

RTS(m, instruction, data) ==
    Bind(stack_pop(m), LAMBDA lb :
    Bind(stack_pop(lb), LAMBDA hb :
    [hb EXCEPT !.cpu.PC = BitOr(hb.ret * 256, lb.ret) + 1,
               !.cpu.jumped = TRUE]))

\* SBC deriving V the way ADC does, from operands of equal sign.
SBC_with_adc_overflow(m, instruction, data) ==
    Bind(read_memory(m, data, instruction.mode), LAMBDA r :
    LET src == r.ret
        A == r.cpu.A
        signed_result == A - src - (1 - AsInt(r.cpu.C))
    IN  setZN([r EXCEPT
                 !.cpu.V = (BitAnd(BitAnd(BitNot(BitXor(A, src)),
                                          BitXor(A, signed_result)),
                                   \h80) # 0),
                 !.cpu.A = signed_result % 256,
                 !.cpu.C = ~(signed_result < 0)],
              signed_result % 256))

SBC(m, instruction, data) ==
    Bind(read_memory(m, data, instruction.mode), LAMBDA r :
    LET src == r.ret
        A == r.cpu.A
        signed_result == A - src - (1 - AsInt(r.cpu.C))
    IN  setZN([r EXCEPT
                 !.cpu.V = (BitAnd(BitAnd(BitXor(A, src),
                                          BitXor(A, signed_result)),
                                   \h80) # 0),
                 !.cpu.A = (A - src - (1 - AsInt(r.cpu.C))) % 256,
                 !.cpu.C = ~(signed_result < 0)],
              (A - src - (1 - AsInt(r.cpu.C))) % 256))

SEC(m, instruction, data) == [m EXCEPT !.cpu.C = TRUE]
SED(m, instruction, data) == [m EXCEPT !.cpu.D = TRUE]
SEI(m, instruction, data) == [m EXCEPT !.cpu.I = TRUE]

STA(m, instruction, data) == write_memory(m, data, instruction.mode, m.cpu.A)
STX(m, instruction, data) == write_memory(m, data, instruction.mode, m.cpu.X)
STY(m, instruction, data) == write_memory(m, data, instruction.mode, m.cpu.Y)

TAX(m, instruction, data) == setZN([m EXCEPT !.cpu.X = m.cpu.A], m.cpu.A)
TAY(m, instruction, data) == setZN([m EXCEPT !.cpu.Y = m.cpu.A], m.cpu.A)
TSX(m, instruction, data) == setZN([m EXCEPT !.cpu.X = m.cpu.SP], m.cpu.SP)
TXA(m, instruction, data) == setZN([m EXCEPT !.cpu.A = m.cpu.X], m.cpu.X)
TXS(m, instruction, data) == [m EXCEPT !.cpu.SP = m.cpu.X]
TYA(m, instruction, data) == setZN([m EXCEPT !.cpu.A = m.cpu.Y], m.cpu.Y)

\* unimplemented loading the accumulator with its operand.
unimplemented_loading_A(m, instruction, data) ==
    [m EXCEPT !.cpu.A = data]

\* Prints a diagnostic and changes nothing.
unimplemented(m, instruction, data) == m

\* instruction.method(instruction, data)
Method(m, instruction, data) ==
    LET f == instruction.method
    IN  CASE f = "ADC" -> ADC(m, instruction, data)
          [] f = "AND" -> AND(m, instruction, data)
          [] f = "ASL" -> ASL(m, instruction, data)
          [] f = "BCC" -> BCC(m, instruction, data)
          [] f = "BCS" -> BCS(m, instruction, data)
          [] f = "BEQ" -> BEQ(m, instruction, data)
          [] f = "BIT" -> BIT(m, instruction, data)
          [] f = "BMI" -> BMI(m, instruction, data)
          [] f = "BNE" -> BNE(m, instruction, data)
          [] f = "BPL" -> BPL(m, instruction, data)
          [] f = "BRK" -> BRK(m, instruction, data)
          [] f = "BVC" -> BVC(m, instruction, data)
          [] f = "BVS" -> BVS(m, instruction, data)
          [] f = "CLC" -> CLC(m, instruction, data)
          [] f = "CLD" -> CLD(m, instruction, data)
          [] f = "CLI" -> CLI(m, instruction, data)
          [] f = "CLV" -> CLV(m, instruction, data)
          [] f = "CMP" -> CMP(m, instruction, data)
          [] f = "CPX" -> CPX(m, instruction, data)
          [] f = "CPY" -> CPY(m, instruction, data)
          [] f = "DEC" -> DEC(m, instruction, data)
          [] f = "DEX" -> DEX(m, instruction, data)
          [] f = "DEY" -> DEY(m, instruction, data)
          [] f = "EOR" -> EOR(m, instruction, data)
          [] f = "INC" -> INC(m, instruction, data)
          [] f = "INX" -> INX(m, instruction, data)
          [] f = "INY" -> INY(m, instruction, data)
          [] f = "JMP" -> JMP(m, instruction, data)
          [] f = "JSR" -> JSR(m, instruction, data)
          [] f = "LDA" -> LDA(m, instruction, data)
          [] f = "LDX" -> LDX(m, instruction, data)
          [] f = "LDY" -> LDY(m, instruction, data)
          [] f = "LSR" -> LSR(m, instruction, data)
          [] f = "NOP" -> NOP(m, instruction, data)
          [] f = "ORA" -> ORA(m, instruction, data)
          [] f = "PHA" -> PHA(m, instruction, data)
          [] f = "PHP" -> PHP(m, instruction, data)
          [] f = "PLA" -> PLA(m, instruction, data)
          [] f = "PLP" -> PLP(m, instruction, data)
          [] f = "ROL" -> ROL(m, instruction, data)
          [] f = "ROR" -> ROR(m, instruction, data)
          [] f = "RTI" -> RTI(m, instruction, data)
          [] f = "RTS" -> RTS(m, instruction, data)
          [] f = "SBC" -> SBC(m, instruction, data)
          [] f = "SEC" -> SEC(m, instruction, data)
          [] f = "SED" -> SED(m, instruction, data)
          [] f = "SEI" -> SEI(m, instruction, data)
          [] f = "STA" -> STA(m, instruction, data)
          [] f = "STX" -> STX(m, instruction, data)
          [] f = "STY" -> STY(m, instruction, data)
          [] f = "TAX" -> TAX(m, instruction, data)
          [] f = "TAY" -> TAY(m, instruction, data)
          [] f = "TSX" -> TSX(m, instruction, data)
          [] f = "TXA" -> TXA(m, instruction, data)
          [] f = "TXS" -> TXS(m, instruction, data)
          [] f = "TYA" -> TYA(m, instruction, data)
          [] OTHER -> unimplemented(m, instruction, data)

BranchTypes == {"BCC", "BCS", "BEQ", "BMI", "BNE", "BPL", "BVC", "BVS"}

\* The ticks step charges once the handler has returned.
StepTicks(c, instruction) ==
    (IF c.jumped /\ instruction.type \in BranchTypes THEN 1 ELSE 0)
    + instruction.ticks
    + (IF c.page_crossed THEN instruction.page_ticks ELSE 0)

\* The operand bytes after the opcode at PC, read in order and assembled
\* little-endian: the loop over range(1, length).
ReadOperand(m, length) ==
    Bind(IF length > 1
         THEN read_memory(m, m.cpu.PC + 1, "ABSOLUTE")
         ELSE Ret(m, 0), LAMBDA d1 :
    Bind(IF length > 2
         THEN read_memory(d1, d1.cpu.PC + 2, "ABSOLUTE")
         ELSE Ret(d1, 0), LAMBDA d2 :
    Ret(d2, BitOr(d1.ret, d2.ret * 256))))

\* Execute that moves PC past the opcode byte when the table gives the
\* instruction no length.
Execute_skipping_unimplemented(m, instruction) ==
    Bind(ReadOperand(m, instruction.length), LAMBDA d :
    Bind(Method(d, instruction, d.ret), LAMBDA m2 :
    [m2 EXCEPT !.cpu.PC = IF ~m2.cpu.jumped
                          THEN @ + (IF instruction.length = 0
                                    THEN 1 ELSE instruction.length)
                          ELSE @,
               !.cpu.cpu_ticks = @ + StepTicks(m2.cpu, instruction)]))

\* step once the opcode is fetched: operands, handler, PC and ticks.
Execute(m, instruction) ==
    Bind(ReadOperand(m, instruction.length), LAMBDA d :
    Bind(Method(d, instruction, d.ret), LAMBDA m2 :
    [m2 EXCEPT !.cpu.PC = IF ~m2.cpu.jumped
                          THEN @ + instruction.length ELSE @,
               !.cpu.cpu_ticks = @ + StepTicks(m2.cpu, instruction)]))

\* step that executes the instruction at PC whatever stall holds.
step_ignoring_stall(m) ==
    IF ~Ok(m) THEN m
    ELSE Bind(read_memory(m, m.cpu.PC, "ABSOLUTE"), LAMBDA op :
         Execute([op EXCEPT !.cpu.page_crossed = FALSE,
                            !.cpu.jumped = FALSE],
                 Instructions[op.ret + 1]))

step(m) ==
    IF ~Ok(m) THEN m
    ELSE IF m.cpu.stall > 0 THEN
        [m EXCEPT !.cpu.stall = @ - 1, !.cpu.cpu_ticks = @ + 1]
    ELSE Bind(read_memory(m, m.cpu.PC, "ABSOLUTE"), LAMBDA op :
         Execute([op EXCEPT !.cpu.page_crossed = FALSE,
                            !.cpu.jumped = FALSE],
                 Instructions[op.ret + 1]))

---------------------------------------------------------------------------
(* The host loop *)

\* The inner loop of run delivering the NMI whatever generate_nmi is.
RECURSIVE ppu_steps_ignoring_generate_nmi(_, _)
ppu_steps_ignoring_generate_nmi(m, n) ==
    IF ~Ok(m) \/ n = 0 THEN m
    ELSE Bind(ppu_step(m), LAMBDA p :
         ppu_steps_ignoring_generate_nmi(
             IF p.ppu.scanline = 241 /\ p.ppu.cycle = 2
             THEN trigger_NMI(p) ELSE p, n - 1))

\* The inner loop of run testing for the NMI one cycle later, at (241, 3).
RECURSIVE ppu_steps_late_nmi(_, _)
ppu_steps_late_nmi(m, n) ==
    IF ~Ok(m) \/ n = 0 THEN m
    ELSE Bind(ppu_step(m), LAMBDA p :
         ppu_steps_late_nmi(IF p.ppu.scanline = 241 /\ p.ppu.cycle = 3
                               /\ p.ppu.generate_nmi
                            THEN trigger_NMI(p) ELSE p, n - 1))

\* The inner loop of run: n PPU steps, each followed by the NMI test.
RECURSIVE ppu_steps(_, _)
ppu_steps(m, n) ==
    IF ~Ok(m) \/ n = 0 THEN m
    ELSE Bind(ppu_step(m), LAMBDA p :
         ppu_steps(IF p.ppu.scanline = 241 /\ p.ppu.cycle = 2
                      /\ p.ppu.generate_nmi
                   THEN trigger_NMI(p) ELSE p, n - 1))

\* One iteration of the loop of run with the local ticks as given:
\* cpu.step(), then three PPU steps for every new CPU tick. Returns
\* new_ticks.
run_iteration(m, ticks) ==
    Bind(step(m), LAMBDA c :
    Ret(ppu_steps(c, (c.cpu.cpu_ticks - ticks) * 3),
        c.cpu.cpu_ticks - ticks))

---------------------------------------------------------------------------
(* Construction *)

\* ROM.__init__ for a mapper-0 image: the header's bank counts and
\* mirroring bit, the PRG and CHR bytes of the file, and zeroed PRG-RAM.
rom_new(prg_rom_size, chr_rom_size, vertical_mirroring, prg_rom, chr_rom) ==
    [prg_rom_size |-> prg_rom_size,
     chr_rom_size |-> chr_rom_size,
     vertical_mirroring |-> vertical_mirroring,
     prg_rom |-> prg_rom,
     chr_rom |-> chr_rom,
     prg_ram |-> Zeros]

ppu_new ==
    [spr |-> Zeros, nametables |-> Zeros, palette |-> Zeros,
     addr |-> 0, addr_write_latch |-> FALSE, status |-> 0, spr_address |-> 0,
     nametable_address |-> 0, address_increment |-> 1,
     spr_pattern_table_address |-> 0,
     background_pattern_table_address |-> 0,
     generate_nmi |-> FALSE, show_background |-> FALSE,
     show_sprites |-> FALSE, left_8_sprite_show |-> FALSE,
     left_8_background_show |-> FALSE,
     scroll_x |-> 0, scroll_y |-> 0, scroll_latch |-> FALSE,
     buffer2007 |-> 0, scanline |-> 0, cycle |-> 0]

joypad_new ==
    [strobe |-> FALSE, read_count |-> 0, a |-> FALSE, b |-> FALSE,
     select |-> FALSE, start |-> FALSE, up |-> FALSE, down |-> FALSE,
     left |-> FALSE, right |-> FALSE]

\* CPU.__init__: the machine holding the new CPU; PC is read from the reset
\* vector through the bus.
cpu_new(p, r) ==
    LET c == [ram |-> Zeros, A |-> 0, X |-> 0, Y |-> 0,
              SP |-> STACK_POINTER_RESET, PC |-> 0,
              C |-> FALSE, Z |-> FALSE, I |-> TRUE, D |-> FALSE,
              B |-> FALSE, V |-> FALSE, N |-> FALSE,
              jumped |-> FALSE, page_crossed |-> FALSE,
              cpu_ticks |-> 0, stall |-> 0, joypad1 |-> joypad_new]
        m == [cpu |-> c, ppu |-> p, rom |-> r, error |-> "none", ret |-> 0]
    IN  Bind(read_memory(m, RESET_VECTOR, "ABSOLUTE"), LAMBDA lo :
        Bind(read_memory(lo, RESET_VECTOR + 1, "ABSOLUTE"), LAMBDA hi :
        [hi EXCEPT !.cpu.PC = Word(lo.ret, hi.ret), !.ret = 0]))

---------------------------------------------------------------------------
(* The state as a machine, and an operation's result as the next state *)

M == [cpu |-> cpu, ppu |-> ppu, rom |-> rom, error |-> error, ret |-> 0]

Start(m, c) ==
    /\ cpu = m.cpu
    /\ ppu = m.ppu
    /\ rom = m.rom
    /\ error = m.error
    /\ call = c
    /\ pre = m
    /\ nops = 0

Becomes(m, op, a, v) ==
    /\ cpu' = m.cpu
    /\ ppu' = m.ppu
    /\ rom' = m.rom
    /\ error' = m.error
    /\ call' = [op |-> op, a |-> a, v |-> v, ret |-> m.ret]
    /\ pre' = M
    /\ nops' = nops + 1

---------------------------------------------------------------------------
(* The bus driven from outside: cpu.read_memory and cpu.write_memory called *)
(* with ABSOLUTE addresses on a newly constructed machine                  *)

MaxOps == 2

\* An iNES image of n PRG banks whose last six bytes hold the NMI, reset
\* and IRQ/BRK vectors, with marker bytes at the start of the PRG-ROM and
\* in the last bank.
Image(n, vertical, reset) ==
    LET len == PRG_ROM_BASE_UNIT_SIZE * n
        prg == (0 :> \hA9) @@ ((len - PRG_ROM_BASE_UNIT_SIZE + 1) :> \h4C)
               @@ ((len - 4) :> reset[1]) @@ ((len - 3) :> reset[2])
               @@ ((len - 6) :> \h00) @@ ((len - 5) :> \h90)
               @@ ((len - 2) :> \h00) @@ ((len - 1) :> \hA0)
    IN  rom_new(n, 1, vertical, prg, Zeros)

ResetVectors == {<<\h34, \h12>>, <<\h00, \hC0>>}

RomImages ==
    {Image(n, vertical, reset) :
        n \in {1, 2}, vertical \in {TRUE}, reset \in ResetVectors}

BusAddrs == {\h0000, \h07FF, \h0800, \h1FFF, \h0F00,
             \h4014, \h4016, \h5FFF, \h6000, \hFFFC}

BusValues == {\h00, \h07, \h1F, \h80}

\* Addresses of the PPU register range: the registers and their mirrors.
PpuBusAddrs == (\h2000 .. \h2007) \cup {\h2008, \h200F, \h3456}
               \cup (\h3FF8 .. \h3FFF)

PpuBusValues == {\h00, \h3F, \h84}

NewCall == [op |-> "new", a |-> 0, v |-> 0, ret |-> 0]

Init == \E r \in RomImages : Start(cpu_new(ppu_new, r), NewCall)

Write(a, v) ==
    /\ error = "none"
    /\ Becomes(Ret(write_memory(M, a, "ABSOLUTE", v), 0), "write", a, v)

Read(a) ==
    /\ error = "none"
    /\ Becomes(read_memory(M, a, "ABSOLUTE"), "read", a, 0)

Next ==
    \/ \E a \in BusAddrs, v \in BusValues : nops < MaxOps /\ Write(a, v)
    \/ \E a \in BusAddrs : nops < MaxOps /\ Read(a)

Spec == Init /\ [][Next]_vars

NextPpuBus ==
    \/ \E a \in PpuBusAddrs, v \in PpuBusValues : nops < MaxOps /\ Write(a, v)
    \/ \E a \in PpuBusAddrs : nops < MaxOps /\ Read(a)

SpecPpuBus == Init /\ [][NextPpuBus]_vars

---------------------------------------------------------------------------
(* Claims about the bus and construction *)

\* Two byte arrays agree at every index outside S.
SameBytesExcept(a1, a2, S) ==
    \A i \in (DOMAIN a1 \cup DOMAIN a2) \ S : At(a1, i) = At(a2, i)

\* C1: for every address a < 0x2000 a bus read of a returns
\* ram[a mod 0x800] and changes no RAM byte; a bus write of v to a is read
\* back as v at all four mirrors a mod 0x800 + k * 0x800 (k = 0..3) and
\* changes no RAM byte other than ram[a mod 0x800].
C1_RamMirrored ==
    /\ DOMAIN cpu.ram \subseteq 0 .. 2047
    /\ (call.op = "read" /\ call.a < \h2000) =>
          /\ error = "none"
          /\ call.ret = At(pre.cpu.ram, call.a % 2048)
          /\ cpu.ram = pre.cpu.ram
    /\ (call.op = "write" /\ call.a < \h2000) =>
          /\ error = "none"
          /\ \A k \in 0 .. 3 :
                LET r == read_memory(M, (call.a % 2048) + k * 2048, "ABSOLUTE")
                IN  Ok(r) /\ r.ret = call.v
          /\ SameBytesExcept(cpu.ram, pre.cpu.ram, {call.a % 2048})

\* A write through a mirror has replaced a byte that was not zero.
C1_Witness ==
    /\ call.op = "write" /\ call.a = \h1FFF /\ call.v = \h80
    /\ At(pre.cpu.ram, \h7FF) = \h07
    /\ At(cpu.ram, \h7FF) = \h80

\* C2: for every address a with 0x2000 <= a < 0x4000 (0x3FFF included) a
\* bus read and a bus write of a do what a read or write of PPU register
\* (a & 7) | 0x2000 does.
C2_PpuRangeRouted ==
    (call.op \in {"read", "write"} /\ \h2000 <= call.a /\ call.a < \h4000) =>
        LET reg == \h2000 + (call.a % 8)
            r == IF call.op = "read"
                 THEN read_register(pre, reg)
                 ELSE write_register(pre, reg, call.v)
        IN  /\ cpu = r.cpu /\ ppu = r.ppu /\ rom = r.rom /\ error = r.error
            /\ (call.op = "read" /\ Ok(r)) => call.ret = r.ret

\* The reset vector bytes as the image file holds them: the fourth and third
\* byte from the end of the PRG-ROM.
ImageResetLo == At(rom.prg_rom, PRG_ROM_BASE_UNIT_SIZE * rom.prg_rom_size - 4)
ImageResetHi == At(rom.prg_rom, PRG_ROM_BASE_UNIT_SIZE * rom.prg_rom_size - 3)

\* C3: right after construction PC is the little-endian word at
\* 0xFFFC/0xFFFD of the cartridge (34 12 gives 0x1234, with one PRG bank and
\* with two), SP = 0xFD, I is set and every other flag clear, A = X = Y = 0,
\* cpu_ticks = 0, stall = 0, and the packed status is 0x24.
C3_Constructed ==
    call.op = "new" =>
        /\ error = "none"
        /\ cpu.PC = ImageResetLo + 256 * ImageResetHi
        /\ (ImageResetLo = \h34 /\ ImageResetHi = \h12) => cpu.PC = \h1234
        /\ cpu.SP = \hFD
        /\ cpu.I
        /\ ~cpu.C /\ ~cpu.Z /\ ~cpu.D /\ ~cpu.B /\ ~cpu.V /\ ~cpu.N
        /\ cpu.A = 0 /\ cpu.X = 0 /\ cpu.Y = 0
        /\ cpu.cpu_ticks = 0 /\ cpu.stall = 0
        /\ status(cpu) = \h24

\* A one-bank image whose vector bytes are 34 12 has been loaded.
C3_Witness ==
    /\ call.op = "new" /\ rom.prg_rom_size = 1
    /\ ImageResetLo = \h34 /\ ImageResetHi = \h12
    /\ cpu.PC = \h1234

\* C10: a bus write of a page v < 0x20 to 0x4014 leaves OAM[i] equal to the
\* bus byte at v * 0x100 + i (RAM byte (v * 0x100 + i) mod 0x800) for every
\* i in 0..255 and stall = 512, and changes nothing else: not RAM, not the
\* OAM pointer, no CPU register.
C10_OamDma ==
    (call.op = "write" /\ call.a = \h4014 /\ call.v < \h20) =>
        /\ error = "none"
        /\ DOMAIN ppu.spr \subseteq 0 .. 255
        /\ \A i \in 0 .. 255 :
              At(ppu.spr, i) = At(pre.cpu.ram, (call.v * 256 + i) % 2048)
        /\ cpu = [pre.cpu EXCEPT !.stall = 512]
        /\ ppu = [pre.ppu EXCEPT !.spr = ppu.spr]
        /\ rom = pre.rom

\* Page 0x07 has been copied while it held a byte that is not zero.
C10_Witness ==
    /\ call.op = "write" /\ call.a = \h4014 /\ call.v = \h07
    /\ At(pre.cpu.ram, \h7FF) = \h80
    /\ At(ppu.spr, 255) = \h80
    /\ cpu.stall = 512

---------------------------------------------------------------------------
(* The CPU run from a loaded program: bytes are placed in memory, the      *)
(* registers are set as the test harness sets cpu.PC, and step is called   *)

MaxSteps == 2

\* The flags C, Z, I, D, V, N given as the bits 0, 1, 2, 3, 6, 7 of f.
FlagBytes == {f \in 0 .. 255 : Bit(f, 4) = 0 /\ Bit(f, 5) = 0}

\* The one-bank cartridge the programs run on.
ProgramImage == Image(1, TRUE, <<\h00, \hC0>>)

\* The machine with byte v at bus address a of RAM, PRG-RAM or PRG-ROM.
Place(m, a, v) ==
    IF a < \h2000 THEN [m EXCEPT !.cpu.ram = Put(@, a % MEM_SIZE, v)]
    ELSE IF a >= \h8000
    THEN [m EXCEPT !.rom.prg_rom = Put(@, (a - \h8000) % PrgRomLen(m.rom), v)]
    ELSE IF a >= \h6000
    THEN [m EXCEPT !.rom.prg_ram = Put(@, a % PRG_RAM_SIZE, v)]
    ELSE m

RECURSIVE PlaceAll(_, _, _)
PlaceAll(m, a, bytes) ==
    IF bytes = <<>> THEN m
    ELSE PlaceAll(Place(m, a, Head(bytes)), a + 1, Tail(bytes))

RECURSIVE PlaceCells(_, _)
PlaceCells(m, cells) ==
    IF cells = <<>> THEN m
    ELSE PlaceCells(Place(m, Head(cells)[1], Head(cells)[2]), Tail(cells))

\* A program: code at pc, data cells <<address, byte>>, registers, flags.
Program(pc, code, cells, A, X, Y, SP, f) ==
    [pc |-> pc, code |-> code, cells |-> cells,
     A |-> A, X |-> X, Y |-> Y, SP |-> SP, f |-> f]

\* The constructed machine with program s loaded and the registers set.
Load(s) ==
    LET m == PlaceAll(PlaceCells(cpu_new(ppu_new, ProgramImage), s.cells),
                      s.pc, s.code)
    IN  [m EXCEPT !.cpu.PC = s.pc, !.cpu.A = s.A, !.cpu.X = s.X,
                  !.cpu.Y = s.Y, !.cpu.SP = s.SP,
                  !.cpu.C = (Bit(s.f, 0) = 1), !.cpu.Z = (Bit(s.f, 1) = 1),
                  !.cpu.I = (Bit(s.f, 2) = 1), !.cpu.D = (Bit(s.f, 3) = 1),
                  !.cpu.V = (Bit(s.f, 6) = 1), !.cpu.N = (Bit(s.f, 7) = 1)]

EdgeBytes == {\h00, \h01, \h7F, \h80, \hFF}

\* LDA #v for every byte v, in RAM (also across the mirror boundary), in
\* PRG-RAM and in PRG-ROM.
LdaPrograms ==
    {Program(pc, <<\hA9, v>>, <<>>, r[1], \h11, \h22, \hFD, r[2]) :
        pc \in {\h00F0, \h07FF, \h6000, \hC000}, v \in 0 .. 255,
        r \in {<<\h00, \h04>>, <<\hFF, \hCF>>, <<\h80, \h43>>}}

\* Every ADC and SBC opcode of the instruction table.
ArithOpcodes ==
    {\h69, \h65, \h75, \h6D, \h7D, \h79, \h61, \h71,
     \hE9, \hE5, \hF5, \hED, \hFD, \hF9, \hE1, \hF1, \hEB}

\* The operand bytes and the data cells that make opcode op read src in its
\* addressing mode, with X = Y = 0x20: indexed modes wrap in the zero page
\* or cross a page, ABSOLUTE reads PRG-RAM.
ArithCode(op, src) ==
    LET mode == Instructions[op + 1].mode
    IN  IF mode = "IMMEDIATE" THEN <<op, src>>
        ELSE IF mode = "ZEROPAGE" THEN <<op, \h10>>
        ELSE IF mode = "ZEROPAGE_X" THEN <<op, \hF0>>
        ELSE IF mode = "ABSOLUTE" THEN <<op, \h10, \h60>>
        ELSE IF mode \in {"ABSOLUTE_X", "ABSOLUTE_Y"} THEN <<op, \hF0, \h02>>
        ELSE IF mode = "INDEXED_INDIRECT" THEN <<op, \hF0>>
        ELSE <<op, \h10>>

ArithCells(op, src) ==
    LET mode == Instructions[op + 1].mode
    IN  IF mode = "IMMEDIATE" THEN <<>>
        ELSE IF mode \in {"ZEROPAGE", "ZEROPAGE_X"} THEN << <<\h0010, src>> >>
        ELSE IF mode = "ABSOLUTE" THEN << <<\h6010, src>> >>
        ELSE IF mode \in {"ABSOLUTE_X", "ABSOLUTE_Y"}
        THEN << <<\h0310, src>> >>
        ELSE IF mode = "INDEXED_INDIRECT"
        THEN << <<\h0010, \h10>>, <<\h0011, \h03>>, <<\h0310, src>> >>
        ELSE << <<\h0010, \hF0>>, <<\h0011, \h02>>, <<\h0310, src>> >>

ArithPrograms ==
    {Program(\h0200, ArithCode(op, src), ArithCells(op, src),
             A, \h20, \h20, \hFD, f) :
        op \in ArithOpcodes, A \in EdgeBytes, src \in EdgeBytes,
        f \in {\h04, \h05, \h0C, \h0D}}

\* PHP then PLP from every combination of the six flags, with the stack
\* pointer at its reset value and around the wrap.
PhpPlpPrograms ==
    {Program(\h0200, <<\h08, \h28>>, <<>>, \h5A, \h11, \h22, SP, f) :
        SP \in {\hFD, \h00, \h01, \hFF}, f \in FlagBytes}

JmpPointers ==
    {\h0010, \h03FF, \h07FE, \h07FF, \h0800, \h10FF, \h6000, \hFFFC}

\* JMP (p) with 0x80 at p and 0x40 where the high byte is read: at p + 1,
\* or at the start of p's page (and 0x55 at p + 1) when p ends a page.
JmpPrograms ==
    {Program(\h0200, <<\h6C, p % 256, p \div 256>>,
             IF p % 256 = \hFF
             THEN << <<p, \h80>>, <<p + 1, \h55>>, <<p - \hFF, \h40>> >>
             ELSE << <<p, \h80>>, <<p + 1, \h40>> >>,
             0, 0, 0, \hFD, \h04) :
        p \in JmpPointers}

BranchOpcodes == {\h10, \h30, \h50, \h70, \h90, \hB0, \hD0, \hF0}

BranchPrograms ==
    {Program(pc, <<op, off>>, <<>>, 0, 0, 0, \hFD, f) :
        pc \in {\h00F0, \h0200}, op \in BranchOpcodes,
        off \in {\h05, \h0D, \h0E, \h20, \h80, \hFB},
        f \in {\h00, \h02, \hC3}}

\* The opcodes whose table entry has length 0: the entries that use the
\* unimplemented handler, the four unofficial NOPs and 0xEB.
LengthZeroOpcodes == {op \in 0 .. 255 : Instructions[op + 1].length = 0}

UnimplementedOpcodes ==
    {op \in 0 .. 255 : Instructions[op + 1].method = "unimplemented"}

\* Each length-0 opcode followed by two bytes an operand would be made
\* of, in RAM and in PRG-ROM, with X and Y set so that an indexed access
\* of that operand would cross a page.
UnofficialPrograms ==
    {Program(pc, <<op, \hF0, \h06>>, <<>>, \h80, \h20, \h20, \hFD, f) :
        pc \in {\h0200, \hC000}, op \in LengthZeroOpcodes,
        f \in {\h00, \hC3}}

\* Every CMP, CPX and CPY opcode of the instruction table.
CmpOpcodes == {\hC9, \hC5, \hD5, \hCD, \hDD, \hD9, \hC1, \hD1}

CpxOpcodes == {\hE0, \hE4, \hEC}

CpyOpcodes == {\hC0, \hC4, \hCC}

CompareBytes == {\h00, \h01, \h7F, \h80, \h81, \hFF}

\* Each compare of a register byte with an operand byte. CMP keeps
\* X = Y = 0x20 for its indexed modes; CPX and CPY have no indexed mode.
ComparePrograms ==
    {Program(\h0200, ArithCode(op, src), ArithCells(op, src),
             reg, \h20, \h20, \hFD, f) :
        op \in CmpOpcodes, reg \in CompareBytes, src \in CompareBytes,
        f \in {\h04, \hC7}}
    \cup
    {Program(\h0200, ArithCode(op, src), ArithCells(op, src),
             \h5A, reg, \h33, \hFD, f) :
        op \in CpxOpcodes, reg \in CompareBytes, src \in CompareBytes,
        f \in {\h04, \hC7}}
    \cup
    {Program(\h0200, ArithCode(op, src), ArithCells(op, src),
             \h5A, \h33, reg, \hFD, f) :
        op \in CpyOpcodes, reg \in CompareBytes, src \in CompareBytes,
        f \in {\h04, \hC7}}

SignBytes == {\h00, \h01, \h02, \h3F, \h40, \h41, \h55, \h7E, \h7F,
              \h80, \h81, \hAA, \hBF, \hC0, \hC1, \hFE, \hFF}

\* ADC #src and SBC #src over bytes around every sign and carry boundary.
ArithImmediatePrograms ==
    {Program(\h0200, <<op, src>>, <<>>, A, \h20, \h20, \hFD, f) :
        op \in {\h69, \hE9}, A \in SignBytes, src \in SignBytes,
        f \in {\h04, \h05}}

PageModes == {"ABSOLUTE_X", "ABSOLUTE_Y", "INDIRECT_INDEXED"}

\* The opcodes of the three page-crossing modes that have an operand.
PagedOpcodes ==
    {op \in 0 .. 255 : /\ Instructions[op + 1].mode \in PageModes
                       /\ Instructions[op + 1].length > 0}

\* Base address and index register: either side of a page boundary, the
\* index 0 and 0xFF, and the sum past 0xFFFF.
PageCases ==
    {<<\h02F0, \h20>>, <<\h0310, \h20>>, <<\h02E0, \h20>>, <<\h02DF, \h20>>,
     <<\hFFF0, \h20>>, <<\h02FF, \h00>>, <<\h0201, \hFF>>, <<\h0200, \hFF>>,
     <<\hFFFF, \h01>>, <<\hFF01, \hFF>>}

\* Each opcode of PagedOpcodes on each base and index: the base is the
\* operand, or the zero-page pointer at 0x10 for INDIRECT_INDEXED.
PagePrograms ==
    {Program(\h0400,
             IF Instructions[op + 1].mode = "INDIRECT_INDEXED"
             THEN <<op, \h10>> ELSE <<op, c[1] % 256, c[1] \div 256>>,
             << <<\h0010, c[1] % 256>>, <<\h0011, c[1] \div 256>>,
                <<\h0300, \h81>>, <<\h0310, \h7F>> >>,
             \h5A, c[2], c[2], \hFD, \h04) :
        op \in PagedOpcodes, c \in PageCases}

\* JSR t at p with RTS at t, in RAM and in PRG-ROM, p + 2 and p + 3 on
\* either side of a page boundary, the stack pointer at its reset value and
\* where the two pushes wrap.
JsrPrograms ==
    {Program(p, <<\h20, t % 256, t \div 256>>, << <<t, \h60>> >>,
             \h11, \h22, \h33, SP, \h04) :
        p \in {\h0200, \h02FD, \hC0FE, \hFFFD}, t \in {\h0300, \hC200},
        SP \in {\hFD, \h00, \h01}}

\* BRK at p, with the byte after it, over flags and stack pointers.
BrkPrograms ==
    {Program(p, <<\h00, \hEA>>, <<>>, \h11, \h22, \h33, SP, f) :
        p \in {\h0200, \h02FE, \hC0FF}, SP \in {\hFD, \h00, \h01, \h02},
        f \in {\h00, \h04, \h88, \hC3}}

Programs ==
    LdaPrograms \cup ArithPrograms \cup PhpPlpPrograms \cup JmpPrograms
    \cup BranchPrograms \cup UnofficialPrograms \cup ComparePrograms
    \cup JsrPrograms \cup BrkPrograms \cup ArithImmediatePrograms
    \cup PagePrograms

InitCpu == \E s \in Programs : Start(Load(s), NewCall)

Step ==
    /\ error = "none"
    /\ nops < MaxSteps
    /\ Becomes(step(M), "step", cpu.PC, 0)

NextCpu == Step

SpecCpu == InitCpu /\ [][NextCpu]_vars

---------------------------------------------------------------------------
(* The stack helpers called directly, from every stack pointer value *)

MaxStackOps == 2

\* Bytes around the two ends of the stack page.
StackCells ==
    << <<\h00FF, \h33>>, <<\h0100, \hAA>>, <<\h01FF, \h55>>, <<\h0200, \h44>> >>

InitStack ==
    \E S \in 0 .. 255 :
        Start([PlaceCells(cpu_new(ppu_new, ProgramImage), StackCells)
                  EXCEPT !.cpu.SP = S],
              NewCall)

Push(v) ==
    /\ error = "none"
    /\ nops < MaxStackOps
    /\ Becomes(stack_push(M, v), "push", cpu.SP, v)

Pop ==
    /\ error = "none"
    /\ nops < MaxStackOps
    /\ Becomes(stack_pop(M), "pop", cpu.SP, 0)

NextStack ==
    \/ \E v \in EdgeBytes : Push(v)
    \/ Pop

SpecStack == InitStack /\ [][NextStack]_vars

---------------------------------------------------------------------------
(* Claims about instructions and the stack *)

\* The byte a bus read of address a returns where reading has no side
\* effect: RAM and its mirrors, PRG-RAM, PRG-ROM.
MemByte(m, a) ==
    IF a < \h2000 THEN At(m.cpu.ram, a % 2048)
    ELSE IF a >= \h8000
    THEN At(m.rom.prg_rom, (a - \h8000) % (16384 * m.rom.prg_rom_size))
    ELSE IF a >= \h6000 THEN At(m.rom.prg_ram, a % 8192)
    ELSE 0

\* The last operation was a step that executed opcode op (the CPU was not
\* stalled and op is the byte PC addressed).
Stepped(op) ==
    /\ call.op = "step"
    /\ pre.cpu.stall = 0
    /\ MemByte(pre, pre.cpu.PC) = op

\* C4: for every byte v and every CPU state with stall = 0, one step that
\* executes LDA #v (opcode 0xA9) sets A = v, Z = (v = 0), N = (v >= 0x80),
\* advances PC by 2, adds 2 to cpu_ticks and leaves X, Y, SP, C, I, D, V and
\* RAM unchanged.
C4_LdaImmediate ==
    Stepped(\hA9) =>
        LET v == MemByte(pre, pre.cpu.PC + 1)
        IN  /\ error = "none"
            /\ cpu.A = v
            /\ cpu.Z = (v = 0)
            /\ cpu.N = (v >= \h80)
            /\ cpu.PC = pre.cpu.PC + 2
            /\ cpu.cpu_ticks = pre.cpu.cpu_ticks + 2
            /\ cpu.X = pre.cpu.X /\ cpu.Y = pre.cpu.Y /\ cpu.SP = pre.cpu.SP
            /\ cpu.C = pre.cpu.C /\ cpu.I = pre.cpu.I /\ cpu.D = pre.cpu.D
            /\ cpu.V = pre.cpu.V
            /\ cpu.ram = pre.cpu.ram

\* LDA #0x80, fetched across the RAM mirror boundary, has replaced A = 0
\* and set N where N and Z were clear.
C4_Witness ==
    /\ Stepped(\hA9)
    /\ pre.cpu.PC = \h07FF /\ MemByte(pre, \h0800) = \h80
    /\ pre.cpu.A = 0 /\ ~pre.cpu.N
    /\ cpu.A = \h80 /\ cpu.N /\ ~cpu.Z

\* The operand bytes that follow the opcode at PC, little-endian, as many
\* as the opcode's table entry says.
OperandData(m) ==
    LET length == Instructions[MemByte(m, m.cpu.PC) + 1].length
    IN  (IF length > 1 THEN MemByte(m, m.cpu.PC + 1) ELSE 0)
        + (IF length > 2 THEN 256 * MemByte(m, m.cpu.PC + 2) ELSE 0)

\* The byte an instruction with operand bytes data reads in each addressing
\* mode.
OperandByte(m, mode, data) ==
    IF mode = "IMMEDIATE" THEN data
    ELSE IF mode \in {"ZEROPAGE", "ABSOLUTE"} THEN MemByte(m, data)
    ELSE IF mode = "ZEROPAGE_X" THEN MemByte(m, (data + m.cpu.X) % 256)
    ELSE IF mode = "ABSOLUTE_X" THEN MemByte(m, (data + m.cpu.X) % 65536)
    ELSE IF mode = "ABSOLUTE_Y" THEN MemByte(m, (data + m.cpu.Y) % 65536)
    ELSE IF mode = "INDEXED_INDIRECT"
    THEN MemByte(m, MemByte(m, (data + m.cpu.X) % 256)
                    + 256 * MemByte(m, (data + m.cpu.X + 1) % 256))
    ELSE MemByte(m, (MemByte(m, data % 256)
                     + 256 * MemByte(m, (data + 1) % 256) + m.cpu.Y) % 65536)

AdcOpcodes == {k \in 0 .. 255 : Instructions[k + 1].method = "ADC"}
SbcOpcodes == {k \in 0 .. 255 : Instructions[k + 1].method = "SBC"}

\* C5: for all bytes A_prev, src and carry C_prev, after a step that
\* executes ADC the accumulator is (A_prev + src + C_prev) mod 256 and after
\* one that executes SBC it is (A_prev - src - (1 - C_prev)) mod 256, in
\* every addressing mode and whatever the D flag is.
C5_AdcSbcAccumulator ==
    \A op \in AdcOpcodes \cup SbcOpcodes :
        Stepped(op) =>
            LET src == OperandByte(pre, Instructions[op + 1].mode,
                                   OperandData(pre))
                c == AsInt(pre.cpu.C)
            IN  /\ error = "none"
                /\ op \in AdcOpcodes =>
                      cpu.A = (pre.cpu.A + src + c) % 256
                /\ op \in SbcOpcodes =>
                      cpu.A = (pre.cpu.A - src - (1 - c)) % 256

\* SBC (zp),Y has borrowed below zero with D set: 0x00 - 0x01 - 1 = 0xFE.
C5_Witness ==
    /\ Stepped(\hF1)
    /\ pre.cpu.D /\ ~pre.cpu.C /\ pre.cpu.A = \h00
    /\ MemByte(pre, \h0310) = \h01
    /\ cpu.A = \hFE

\* C6: for every stack pointer value S in 0..255 (the wrap at S = 0x00
\* included) and every byte v, stack_push(v) writes v at RAM byte 0x100 | S
\* and no other RAM byte, and a stack_pop() that follows it returns v and
\* leaves the stack pointer at S.
C6_PushPop ==
    /\ [](call.op = "push" =>
            /\ error = "none"
            /\ At(cpu.ram, \h100 + pre.cpu.SP) = call.v
            /\ SameBytesExcept(cpu.ram, pre.cpu.ram, {\h100 + pre.cpu.SP}))
    /\ [][(call.op = "push" /\ call'.op = "pop") =>
            /\ error' = "none"
            /\ call'.ret = call.v
            /\ cpu'.SP = pre.cpu.SP]_vars

\* A byte pushed at S = 0x00 (stored at 0x0100, the pointer wrapping to
\* 0xFF) has been popped again.
C6_Witness ==
    /\ call.op = "pop" /\ call.ret = \h80
    /\ pre.cpu.SP = \hFF /\ cpu.SP = \h00
    /\ At(cpu.ram, \h0100) = \h80

\* C7: for every combination of the flags C, Z, I, D, V, N, PHP stores a
\* byte with the flags in bit order C, Z, I, D, B, 1, V, N (LSB first) in
\* which bit 4 and bit 5 are set, and a PLP executed right after it leaves
\* the six flags and SP as they were before the PHP and leaves B false.
C7_PhpPlp ==
    /\ [](Stepped(\h08) =>
            LET b == At(cpu.ram, \h100 + pre.cpu.SP)
            IN  /\ error = "none"
                /\ Bit(b, 0) = AsInt(pre.cpu.C) /\ Bit(b, 1) = AsInt(pre.cpu.Z)
                /\ Bit(b, 2) = AsInt(pre.cpu.I) /\ Bit(b, 3) = AsInt(pre.cpu.D)
                /\ Bit(b, 4) = 1 /\ Bit(b, 5) = 1
                /\ Bit(b, 6) = AsInt(pre.cpu.V) /\ Bit(b, 7) = AsInt(pre.cpu.N)
                /\ ~cpu.B)
    /\ [][(/\ Stepped(\h08)
           /\ cpu.stall = 0 /\ MemByte(M, cpu.PC) = \h28
           /\ call'.op = "step") =>
            /\ error' = "none"
            /\ cpu'.C = pre.cpu.C /\ cpu'.Z = pre.cpu.Z /\ cpu'.I = pre.cpu.I
            /\ cpu'.D = pre.cpu.D /\ cpu'.V = pre.cpu.V /\ cpu'.N = pre.cpu.N
            /\ cpu'.SP = pre.cpu.SP
            /\ ~cpu'.B]_vars

\* PLP has taken back C, D and N (Z, I, V clear) from the byte 0xB9 that PHP
\* stored at 0x0100 with the stack pointer wrapping from 0x00.
C7_Witness ==
    /\ Stepped(\h28)
    /\ cpu.SP = \h00 /\ At(cpu.ram, \h0100) = \hB9
    /\ cpu.C /\ cpu.D /\ cpu.N /\ ~cpu.Z /\ ~cpu.I /\ ~cpu.V /\ ~cpu.B

\* C8: for every 16-bit pointer p, a step that executes JMP (p) (opcode
\* 0x6C) completes without error and sets PC to the word whose low byte is
\* the bus byte at p and whose high byte is the bus byte at p + 1, or at
\* p & 0xFF00 when p & 0xFF = 0xFF; with operand 0x10FF, [0x10FF] = 0x80 and
\* [0x1000] = 0x40 it sets PC = 0x4080.
C8_JmpIndirect ==
    Stepped(\h6C) =>
        LET p == OperandData(pre)
            hi == IF p % 256 = \hFF THEN p - \hFF ELSE p + 1
        IN  /\ error = "none"
            /\ cpu.PC = MemByte(pre, p) + 256 * MemByte(pre, hi)
            /\ (p = \h10FF /\ MemByte(pre, \h10FF) = \h80
                           /\ MemByte(pre, \h1000) = \h40) => cpu.PC = \h4080

\* The signed value of a branch offset byte.
Signed8(b) == IF b < \h80 THEN b ELSE b - 256

\* The branch opcode op is taken from the flags of CPU c.
BranchTaken(op, c) ==
    IF op = \h10 THEN ~c.N ELSE IF op = \h30 THEN c.N
    ELSE IF op = \h50 THEN ~c.V ELSE IF op = \h70 THEN c.V
    ELSE IF op = \h90 THEN ~c.C ELSE IF op = \hB0 THEN c.C
    ELSE IF op = \hD0 THEN ~c.Z ELSE c.Z

\* C9: a step that executes a conditional branch that is taken adds 3 to
\* cpu_ticks when the target is in the same 256-byte page as PC + 2 and 4
\* when it is in a different page (BEQ at 0x00F0 with Z set: 4 with offset
\* 0x20, 3 with offset 0x05).
C9_BranchTicks ==
    \A op \in BranchOpcodes :
        (Stepped(op) /\ BranchTaken(op, pre.cpu)) =>
            LET next == pre.cpu.PC + 2
                target == (next + Signed8(MemByte(pre, pre.cpu.PC + 1))) % 65536
            IN  /\ error = "none"
                /\ cpu.PC = target
                /\ cpu.cpu_ticks - pre.cpu.cpu_ticks =
                      IF target \div 256 = next \div 256 THEN 3 ELSE 4

---------------------------------------------------------------------------
(* The PPU registers driven through the bus: PPUSTATUS reads, PPUSCROLL   *)
(* and PPUADDR writes, on a machine whose PPU has run into vblank          *)

MaxRegOps == 4

\* The machine before the last operation together with the call that
\* produced it, so that three consecutive operations can be related.
Traced(m, c) ==
    [cpu |-> m.cpu, ppu |-> m.ppu, rom |-> m.rom, error |-> m.error,
     ret |-> m.ret, call |-> c]

StartTraced(m) ==
    /\ cpu = m.cpu
    /\ ppu = m.ppu
    /\ rom = m.rom
    /\ error = m.error
    /\ call = NewCall
    /\ pre = Traced(m, NewCall)
    /\ nops = 0

Then(m, op, a, v) ==
    /\ cpu' = m.cpu
    /\ ppu' = m.ppu
    /\ rom' = m.rom
    /\ error' = m.error
    /\ call' = [op |-> op, a |-> a, v |-> v, ret |-> m.ret]
    /\ pre' = Traced(M, call)
    /\ nops' = nops + 1

\* PPUSTATUS as PPU.step leaves it: clear before vblank, bit 7 after the
\* step at (241, 1), bit 6 as well after a sprite-zero hit.
StatusBytes == {\h00, \h80, \hC0}

RegValues == {\h00, \h21, \h3F}

WithStatus(m, s) == [m EXCEPT !.ppu.status = s]

InitRegs ==
    \E s \in StatusBytes :
        StartTraced(WithStatus(cpu_new(ppu_new, ProgramImage), s))

RegWrite(a, v) ==
    /\ error = "none"
    /\ Then(Ret(write_memory(M, a, "ABSOLUTE", v), 0), "write", a, v)

RegRead(a) ==
    /\ error = "none"
    /\ Then(read_memory(M, a, "ABSOLUTE"), "read", a, 0)

NextRegs ==
    \/ \E v \in RegValues : nops < MaxRegOps /\ RegWrite(\h2005, v)
    \/ \E v \in RegValues : nops < MaxRegOps /\ RegWrite(\h2006, v)
    \/ nops < MaxRegOps /\ RegRead(\h2002)

SpecRegs == InitRegs /\ [][NextRegs]_vars

---------------------------------------------------------------------------
(* Claims about the PPU registers *)

Did(c, op, a) == c.op = op /\ c.a = a

\* C11: a PPUSTATUS read returns the status byte as it was before the
\* read, clears only bit 7 of the stored status and resets both write
\* latches; and a PPUADDR write that follows a PPUADDR write and a
\* PPUSTATUS read is a first write: it sets the high byte of the VRAM
\* address and keeps the low byte.
C11_StatusRead ==
    /\ [](Did(call, "read", \h2002) =>
            /\ error = "none"
            /\ call.ret = pre.ppu.status
            /\ ppu.status = pre.ppu.status % \h80
            /\ ~ppu.addr_write_latch
            /\ ~ppu.scroll_latch)
    /\ [][(/\ Did(pre.call, "write", \h2006)
           /\ Did(call, "read", \h2002)
           /\ Did(call', "write", \h2006))
          => ppu'.addr = call'.v * 256 + (ppu.addr % 256)]_vars

\* The scenario of the specification: PPUSTATUS = 0x80, one PPUADDR write
\* of a non-zero byte, the PPUSTATUS read returning 0x80 and clearing bit
\* 7, and a PPUADDR write of another byte that replaced the high byte.
C11_Witness ==
    /\ nops = 3
    /\ Did(call, "write", \h2006)
    /\ Did(pre.call, "read", \h2002)
    /\ pre.call.ret = \h80
    /\ pre.ppu.status = \h00
    /\ pre.ppu.addr = \h2100
    /\ call.v = \h3F
    /\ ppu.addr = \h3F00

---------------------------------------------------------------------------
(* PPU memory: PPU.write_memory and PPU.read_memory called on the palette *)
(* and nametable ranges, for cartridges of both mirroring modes            *)

MaxPpuOps == 3

MirroringImages == {Image(1, vertical, <<\h00, \hC0>>) : vertical \in BOOLEAN}

\* Palette addresses: the shared entries and their partners, a mirror of
\* each, the last 32-byte mirror, and two entries that are not shared.
PaletteAddrs == {\h3F00, \h3F10, \h3F04, \h3F14, \h3F0C, \h3F1C,
                 \h3F28, \h3F38, \h3FE4, \h3FFC, \h3F01, \h3F11}

\* Offsets into a nametable: the first, the last, and the last the
\* 0x3000-0x3EFF mirror still covers in the fourth nametable.
NametableOffsets == {\h000, \h2FF, \h3FF}

NametableAddrs ==
    {a \in {base + k : base \in {\h2000, \h2400, \h2800, \h2C00,
                                 \h3000, \h3400, \h3800, \h3C00},
                       k \in NametableOffsets} : a < \h3F00}

PpuMemValues == {\h00, \h2A}

InitPpuMem == \E r \in MirroringImages : Start(cpu_new(ppu_new, r), NewCall)

PpuWrite(a, v) ==
    /\ error = "none"
    /\ Becomes(Ret(ppu_write_memory(M, a, v), 0), "ppu_write", a, v)

PpuRead(a) ==
    /\ error = "none"
    /\ Becomes(ppu_read_memory(M, a), "ppu_read", a, 0)

NextPpuMem ==
    \/ \E a \in PaletteAddrs \cup NametableAddrs, v \in PpuMemValues :
          nops < MaxPpuOps /\ PpuWrite(a, v)
    \/ \E a \in {\h3F00, \h3F10, \h2000, \h2400} :
          nops < MaxPpuOps /\ PpuRead(a)

SpecPpuMem == InitPpuMem /\ [][NextPpuMem]_vars

---------------------------------------------------------------------------
(* Claims about PPU memory *)

\* What a PPU memory read at address a returns in machine m.
PpuByte(m, a) == ppu_read_memory(m, a).ret

\* The start of each 32-byte image of the palette in 0x3F00..0x3FFF.
PaletteMirrors == {\h3F00 + \h20 * j : j \in 0 .. 7}

SharedOffsets == {0, 4, 8, 12}

\* C12: after any sequence of PPU memory writes, a read at 0x3F10 + k
\* and a read at 0x3F00 + k return the same byte for k in {0, 4, 8, 12},
\* in every 32-byte mirror up to 0x3FFF; a write to either address of a
\* pair is read back at both.
C12_PaletteShared ==
    /\ \A base \in PaletteMirrors, k \in SharedOffsets :
          /\ PpuByte(M, base + \h10 + k) = PpuByte(M, \h3F00 + k)
          /\ PpuByte(M, base + k) = PpuByte(M, \h3F00 + k)
    /\ (call.op = "ppu_write" /\ call.a >= \h3F00
        /\ (call.a % \h10) \in SharedOffsets)
       => \A base \in PaletteMirrors :
             /\ PpuByte(M, base + (call.a % \h10)) = call.v
             /\ PpuByte(M, base + \h10 + (call.a % \h10)) = call.v

\* A write of 0x2A at 0x3F10 over a zero byte, read back at 0x3F00 and in
\* the last mirror, and leaving the neighbouring entry 0x3F11 alone.
C12_Witness ==
    /\ call.op = "ppu_write"
    /\ call.a = \h3F10
    /\ call.v = \h2A
    /\ PpuByte(pre, \h3F00) = \h00
    /\ PpuByte(M, \h3F00) = \h2A
    /\ PpuByte(M, \h3FE0) = \h2A
    /\ PpuByte(M, \h3F11) = \h00

\* A nametable address and its image in the 0x3000-0x3EFF mirror.
Images(a) == {x \in {a, a + \h1000} : x < \h3F00}

\* C13: a PPU write at 0x2400 + k (or at its image 0x3400 + k) is read
\* back at 0x2400 + k and, with vertical mirroring, at 0x2C00 + k while
\* 0x2000 + k and 0x2800 + k keep their bytes; with horizontal mirroring
\* it is read back at 0x2000 + k while 0x2800 + k and 0x2C00 + k keep
\* their bytes; the images in 0x3000..0x3EFF read the same; and every
\* nametable access indexes below 2048 (no access raises).
C13_NametableMirroring ==
    /\ error = "none"
    /\ nops = 0 =>
          \A a \in \h2000 .. \h3EFF : NametableIndex(rom, a) < NAMETABLE_SIZE
    /\ \A k \in NametableOffsets :
         (call.op = "ppu_write" /\ call.a \in Images(\h2400 + k)) =>
            LET same == IF rom.vertical_mirroring
                        THEN {\h2400 + k, \h2C00 + k}
                        ELSE {\h2400 + k, \h2000 + k}
                kept == IF rom.vertical_mirroring
                        THEN {\h2000 + k, \h2800 + k}
                        ELSE {\h2800 + k, \h2C00 + k}
            IN  /\ \A b \in same : \A x \in Images(b) :
                      PpuByte(M, x) = call.v
                /\ \A b \in kept : \A x \in Images(b) :
                      PpuByte(M, x) = PpuByte(pre, x)

\* With vertical mirroring, 0x2A written at 0x27FF over zero bytes: read
\* back at 0x2FFF, and 0x23FF and 0x2BFF still read zero.
C13_Witness ==
    /\ rom.vertical_mirroring
    /\ call.op = "ppu_write"
    /\ call.a = \h27FF
    /\ call.v = \h2A
    /\ PpuByte(pre, \h2FFF) = \h00
    /\ PpuByte(M, \h2FFF) = \h2A
    /\ PpuByte(M, \h23FF) = \h00
    /\ PpuByte(M, \h2BFF) = \h00

\* With horizontal mirroring, 0x2A written through the mirror at 0x3400:
\* read back at 0x2000, and 0x2800 and 0x2C00 still read zero.
C13_WitnessHorizontal ==
    /\ ~rom.vertical_mirroring
    /\ call.op = "ppu_write"
    /\ call.a = \h3400
    /\ call.v = \h2A
    /\ PpuByte(pre, \h2000) = \h00
    /\ PpuByte(M, \h2000) = \h2A
    /\ PpuByte(M, \h2800) = \h00
    /\ PpuByte(M, \h2C00) = \h00

---------------------------------------------------------------------------
(* The joypad port: writes and reads of 0x4016 through the bus, with the  *)
(* host loop's key events changing the buttons in between                 *)

MaxJoyOps == 11

\* Button states as key events leave them: none held, and two
\* complementary patterns.
ButtonSets ==
    {[a |-> x, b |-> y, select |-> x, start |-> y,
      up |-> x, down |-> y, left |-> x, right |-> y] :
        x \in BOOLEAN, y \in BOOLEAN} \ {[a |-> TRUE, b |-> TRUE,
            select |-> TRUE, start |-> TRUE, up |-> TRUE, down |-> TRUE,
            left |-> TRUE, right |-> TRUE]}

WithButtons(m, s) ==
    [m EXCEPT !.cpu.joypad1 =
        [strobe |-> @.strobe, read_count |-> @.read_count,
         a |-> s.a, b |-> s.b, select |-> s.select, start |-> s.start,
         up |-> s.up, down |-> s.down, left |-> s.left, right |-> s.right]]

\* The operation just performed, with what the sequence of operations so
\* far says about the port: last_bit is bit 0 of the last byte written
\* (0 before any write), since is the number of reads with last_bit = 0
\* since the last write that took last_bit from 1 to 0 (-1 before any).
JoyCall(op, v, last_bit, since) ==
    [op |-> op, a |-> \h4016, v |-> v, ret |-> 0,
     last_bit |-> last_bit, since |-> since]

BecomesCall(m, c) ==
    /\ cpu' = m.cpu
    /\ ppu' = m.ppu
    /\ rom' = m.rom
    /\ error' = m.error
    /\ call' = [c EXCEPT !.ret = m.ret]
    /\ pre' = M
    /\ nops' = nops + 1

InitJoypad ==
    \E s \in ButtonSets :
        Start(WithButtons(cpu_new(ppu_new, ProgramImage), s),
              JoyCall("new", 0, 0, 0 - 1))

JoyWrite(v) ==
    /\ error = "none"
    /\ BecomesCall(Ret(write_memory(M, \h4016, "ABSOLUTE", v), 0),
                   JoyCall("write", v, v % 2,
                           IF call.last_bit = 1 /\ v % 2 = 0
                           THEN 0 ELSE call.since))

JoyRead ==
    /\ error = "none"
    /\ BecomesCall(read_memory(M, \h4016, "ABSOLUTE"),
                   JoyCall("read", 0, call.last_bit,
                           IF call.last_bit = 0 /\ call.since >= 0
                           THEN call.since + 1 ELSE call.since))

\* pygame KEYDOWN / KEYUP for the keys of A (x) and Right.
KeyEvent(key, is_keydown) ==
    /\ error = "none"
    /\ BecomesCall(Ret(IF key = "x"
                       THEN [M EXCEPT !.cpu.joypad1.a = is_keydown]
                       ELSE [M EXCEPT !.cpu.joypad1.right = is_keydown], 0),
                   JoyCall("key", 0, call.last_bit, call.since))

NextJoypad ==
    \/ \E v \in {\h00, \h01, \hFE} : nops < MaxJoyOps /\ JoyWrite(v)
    \/ nops < MaxJoyOps /\ JoyRead
    \/ \E key \in {"x", "right"}, is_keydown \in BOOLEAN :
          nops < MaxJoyOps /\ KeyEvent(key, is_keydown)

SpecJoypad == InitJoypad /\ [][NextJoypad]_vars

---------------------------------------------------------------------------
(* Claims about the joypad port *)

\* The buttons in the order the port reports them.
ButtonOrder(j) ==
    <<j.a, j.b, j.select, j.start, j.up, j.down, j.left, j.right>>

\* C14: after a write to 0x4016 with bit 0 set followed by a write with
\* bit 0 clear, the n-th read of 0x4016 returns 0x40 OR the state of the
\* n-th of A, B, Select, Start, Up, Down, Left, Right for n = 1..8 and
\* 0x41 for every later read before the next such pair of writes; while
\* the last write had bit 0 set a read returns the state of A and is not
\* counted.
C14_JoypadSequence ==
    (call.op = "read") =>
        /\ error = "none"
        /\ call.last_bit = 1 => call.ret = AsInt(cpu.joypad1.a)
        /\ (call.last_bit = 0 /\ call.since \in 1 .. 8) =>
              call.ret = \h40 + AsInt(ButtonOrder(cpu.joypad1)[call.since])
        /\ (call.last_bit = 0 /\ call.since > 8) => call.ret = \h41

\* The eighth read after the strobe pair returning 0x41 for Right held
\* while Left is up.
C14_Witness ==
    /\ call.op = "read"
    /\ call.last_bit = 0
    /\ call.since = 8
    /\ cpu.joypad1.right
    /\ ~cpu.joypad1.left
    /\ call.ret = \h41

\* The ninth read after the strobe pair returning 0x41 with no button
\* held.
C14_WitnessNinth ==
    /\ call.op = "read"
    /\ call.last_bit = 0
    /\ call.since = 9
    /\ ~cpu.joypad1.a
    /\ ~cpu.joypad1.right
    /\ call.ret = \h41

\* A read while the strobe is set returning A held, after reads of the
\* sequence had started.
C14_WitnessStrobe ==
    /\ call.op = "read"
    /\ call.last_bit = 1
    /\ call.since >= 1
    /\ cpu.joypad1.a
    /\ call.ret = 1

---------------------------------------------------------------------------
(* Claims about the unofficial opcodes *)

\* The registers, flags, RAM, PPU and cartridge are as before the last
\* operation.
NothingButTicksChanged ==
    /\ cpu.A = pre.cpu.A /\ cpu.X = pre.cpu.X /\ cpu.Y = pre.cpu.Y
    /\ cpu.SP = pre.cpu.SP /\ cpu.PC = pre.cpu.PC
    /\ cpu.C = pre.cpu.C /\ cpu.Z = pre.cpu.Z /\ cpu.I = pre.cpu.I
    /\ cpu.D = pre.cpu.D /\ cpu.B = pre.cpu.B /\ cpu.V = pre.cpu.V
    /\ cpu.N = pre.cpu.N
    /\ cpu.ram = pre.cpu.ram
    /\ ppu = pre.ppu
    /\ rom = pre.rom

\* C15: one step on an opcode whose table entry uses the unimplemented
\* handler leaves A, X, Y, SP, PC, the flags, RAM, the PPU and the
\* cartridge unchanged and adds exactly the entry's base tick count to
\* cpu_ticks.
C15_Unimplemented ==
    \A op \in UnimplementedOpcodes :
        Stepped(op) =>
            /\ error = "none"
            /\ NothingButTicksChanged
            /\ cpu.cpu_ticks = pre.cpu.cpu_ticks + Instructions[op + 1].ticks

\* The second step on 0xBF (LAX absolute,Y: 4 ticks, 1 page tick) in
\* PRG-ROM: PC is still 0xC000, A still 0x80, and the ticks went from 4
\* to 8.
C15_Witness ==
    /\ Stepped(\hBF)
    /\ nops = 2
    /\ pre.cpu.PC = \hC000 /\ cpu.PC = \hC000
    /\ cpu.A = \h80 /\ cpu.N /\ cpu.C
    /\ pre.cpu.cpu_ticks = 4
    /\ cpu.cpu_ticks = 8

\* C16: one step on an opcode whose table entry has length 0 (among them
\* 0x82, 0x89, 0xC2, 0xE2 and 0xEB) changes no register, no flag and no
\* memory byte.
C16_LengthZeroNoEffect ==
    \A op \in LengthZeroOpcodes :
        Stepped(op) => (error = "none" /\ NothingButTicksChanged)

---------------------------------------------------------------------------
(* Claims about the write latch of PPUSCROLL and PPUADDR *)

\* C17: PPUSCROLL and PPUADDR writes toggle one shared latch: after a
\* PPUSTATUS read, a PPUSCROLL write followed by a PPUADDR write makes
\* the PPUADDR write a second write (it sets the low byte of the VRAM
\* address and keeps the high byte), and a PPUADDR write followed by a
\* PPUSCROLL write sets scroll Y (and keeps scroll X).
C17_SharedLatch ==
    [][/\ (/\ Did(pre.call, "read", \h2002)
           /\ Did(call, "write", \h2005)
           /\ Did(call', "write", \h2006))
          => ppu'.addr = (ppu.addr \div 256) * 256 + call'.v
       /\ (/\ Did(pre.call, "read", \h2002)
           /\ Did(call, "write", \h2006)
           /\ Did(call', "write", \h2005))
          => (ppu'.scroll_y = call'.v /\ ppu'.scroll_x = ppu.scroll_x)]_vars

---------------------------------------------------------------------------
(* The PPU stepped from construction through a whole frame and back to    *)
(* the first cycle                                                        *)

\* 341 cycles in each of 262 scanlines.
FramePeriod == 341 * 262

MaxPpuSteps == 89342

\* PPUMASK bytes written before the frame: rendering off, and background
\* and sprites shown.
MaskBytes == {\h00, \h1E}

InitPpu ==
    \E mask \in MaskBytes :
        Start(write_register(cpu_new(ppu_new, ProgramImage), \h2001, mask),
              NewCall)

PpuStep ==
    /\ error = "none"
    /\ nops < MaxPpuSteps
    /\ Becomes(Ret(ppu_step(M), 0), "ppu_step", 0, 0)

NextPpu == PpuStep

SpecPpu == InitPpu /\ [][NextPpu]_vars

---------------------------------------------------------------------------
(* Claims about the PPU step *)

\* C18: scanline stays in 0..261 and cycle in 0..340; each PPU step adds
\* one to cycle, cycle 340 wraps to 0 and adds one to scanline, scanline
\* 261 wraps to 0; the pair (scanline, cycle) is the number of steps
\* taken modulo 341 * 262 = 89342, so it takes every value once in a
\* period and is back at its first value after exactly 89342 steps.
C18_FrameCounters ==
    /\ error = "none"
    /\ ppu.scanline \in 0 .. 261
    /\ ppu.cycle \in 0 .. 340
    /\ ppu.scanline * 341 + ppu.cycle = nops % 89342
    /\ call.op = "ppu_step" =>
          IF pre.ppu.cycle < 340
          THEN ppu.cycle = pre.ppu.cycle + 1
               /\ ppu.scanline = pre.ppu.scanline
          ELSE ppu.cycle = 0
               /\ ppu.scanline = (IF pre.ppu.scanline = 261
                                  THEN 0 ELSE pre.ppu.scanline + 1)

\* The step that completes the period: from (261, 340) back to (0, 0)
\* after 89342 steps.
C18_Witness ==
    /\ call.op = "ppu_step"
    /\ nops = FramePeriod
    /\ pre.ppu.scanline = 261 /\ pre.ppu.cycle = 340
    /\ ppu.scanline = 0 /\ ppu.cycle = 0

\* C19: after the PPU step taken at (scanline = 261, cycle = 1) the
\* status bits 7, 6 and 5 are all 0, whatever the status was before.
C19_PreRenderClearsFlags ==
    (call.op = "ppu_step" /\ pre.ppu.scanline = 261 /\ pre.ppu.cycle = 1)
        => ppu.status \div 32 = 0

---------------------------------------------------------------------------
(* The host loop run from a loaded program, at the start and late in the  *)
(* first frame, where the PPU reaches (241, 2)                            *)

MaxIterations == 4

\* The step of the frame after which run tests for the NMI: the PPU is
\* at (241, 2).
NmiPoint == 241 * 341 + 2

\* cpu_ticks at the start, and so far into the first frame that the next
\* iterations carry the PPU past (241, 2).
StartTicks == {0, 27390, 27391, 27392, 27393, 27394}

\* LDA #1, STA $4014 (a DMA, then stall ticks); JMP $0200; NOPs;
\* INC $0300,X (7 ticks).
RunPrograms ==
    {Program(\h0200, code, <<>>, 0, 0, 0, \hFD, \h04) :
        code \in {<<\hA9, \h01, \h8D, \h14, \h40, \hEA>>,
                  <<\h4C, \h00, \h02>>,
                  <<\hEA, \hEA, \hEA, \hEA>>,
                  <<\hFE, \h00, \h03, \hFE, \h00, \h03>>}}

\* The machine as the loop has it once cpu_ticks is t in the first frame:
\* the PPU has taken 3 * t steps and PPUCTRL bit 7 was written as nmi.
AtTicks(m, t, nmi) ==
    [m EXCEPT !.cpu.cpu_ticks = t,
              !.ppu.scanline = (3 * t) \div 341,
              !.ppu.cycle = (3 * t) % 341,
              !.ppu.generate_nmi = nmi]

\* call.a holds the loop's local ticks and call.v the number of PPU
\* steps made since the start.
InitRun ==
    \E s \in RunPrograms \cup BranchPrograms \cup UnofficialPrograms,
       t \in StartTicks, nmi \in BOOLEAN :
        Start(AtTicks(Load(s), t, nmi),
              [op |-> "new", a |-> t, v |-> 3 * t, ret |-> 0])

BecomesIteration(m) ==
    /\ cpu' = m.cpu
    /\ ppu' = m.ppu
    /\ rom' = m.rom
    /\ error' = m.error
    /\ call' = [op |-> "iteration", a |-> call.a + m.ret,
                v |-> call.v + 3 * m.ret, ret |-> m.ret]
    /\ pre' = M
    /\ nops' = nops + 1

Iteration ==
    /\ error = "none"
    /\ nops < MaxIterations
    /\ BecomesIteration(run_iteration(M, call.a))

NextRun == Iteration

SpecRun == InitRun /\ [][NextRun]_vars

---------------------------------------------------------------------------
(* Claims about the host loop *)

\* The number of PPU steps a PPU at this position has taken in its frame.
FrameStep(p) == p.scanline * 341 + p.cycle

\* C20: at the end of every iteration of the host loop the number of PPU
\* steps made since the start is 3 times cpu.cpu_ticks (and the PPU is
\* at the position of that many steps), whether the iteration ran an
\* instruction, a stall tick or delivered an NMI.
C20_ThreePpuStepsPerTick ==
    (call.op = "iteration" /\ error = "none") =>
        /\ call.v = 3 * cpu.cpu_ticks
        /\ call.a = cpu.cpu_ticks
        /\ FrameStep(ppu) = (3 * cpu.cpu_ticks) % FramePeriod

\* An iteration that delivered the NMI: the PPU went past (241, 2) with
\* generate_nmi set, PC is the NMI vector 0x9000 and three bytes were
\* pushed, after a 7-tick instruction and 21 PPU steps.
C20_Witness ==
    /\ call.op = "iteration"
    /\ error = "none"
    /\ ppu.generate_nmi
    /\ FrameStep(pre.ppu) < NmiPoint
    /\ FrameStep(ppu) >= NmiPoint
    /\ cpu.PC = \h9000
    /\ cpu.SP = pre.cpu.SP - 3
    /\ cpu.cpu_ticks = pre.cpu.cpu_ticks + 7
    /\ call.v = 3 * cpu.cpu_ticks

\* An iteration that spent a stall tick of the DMA: three PPU steps.
C20_WitnessStall ==
    /\ call.op = "iteration"
    /\ error = "none"
    /\ pre.cpu.stall = 512
    /\ cpu.stall = 511
    /\ call.ret = 1
    /\ FrameStep(ppu) = FrameStep(pre.ppu) + 3

---------------------------------------------------------------------------
(* The host loop followed call by call through more than a frame: each    *)
(* cpu.step() and each pass of the PPU loop is one action                  *)

MaxHostCalls == 192000

\* The handler the NMI vector 0x9000 points to: JMP $9000.
NmiHandler == << <<\h9000, \h4C>>, <<\h9001, \h00>>, <<\h9002, \h90>> >>

\* JMP $0200 run with PPUCTRL written as 0x80 and as 0x00 before, and
\* LDA #$80, STA $2000, JMP $0205 run from PPUCTRL = 0x00.
HostCases ==
    {[code |-> <<\h4C, \h00, \h02>>, ctrl |-> \h80],
     [code |-> <<\h4C, \h00, \h02>>, ctrl |-> \h00],
     [code |-> <<\hA9, \h80, \h8D, \h00, \h20, \h4C, \h05, \h02>>,
      ctrl |-> \h00]}

\* The call just made: ticks is the loop's local ticks, pending the
\* passes of the PPU loop still to make in this iteration, and polls the
\* number of passes made since the start.
HostCall(op, ticks, pending, polls) ==
    [op |-> op, a |-> 0, v |-> 0, ret |-> 0,
     ticks |-> ticks, pending |-> pending, polls |-> polls]

InitHost ==
    \E c \in HostCases :
        Start(write_register(
                  Load(Program(\h0200, c.code, NmiHandler,
                               0, 0, 0, \hFD, \h04)),
                  \h2000, c.ctrl),
              HostCall("new", 0, 0, 0))

\* cpu.step() and new_ticks = cpu.cpu_ticks - ticks.
HostCpuStep ==
    /\ error = "none"
    /\ nops < MaxHostCalls
    /\ call.pending = 0
    /\ BecomesCall(Ret(step(M), 0),
                   HostCall("cpu_step", call.ticks,
                            (step(M).cpu.cpu_ticks - call.ticks) * 3,
                            call.polls))

\* One pass of the PPU loop: ppu.step() and the NMI test; after the last
\* pass ticks += new_ticks.
HostPpuStep ==
    /\ error = "none"
    /\ nops < MaxHostCalls
    /\ call.pending > 0
    /\ BecomesCall(Ret(ppu_steps(M, 1), 0),
                   HostCall("ppu_step",
                            IF call.pending = 1
                            THEN cpu.cpu_ticks ELSE call.ticks,
                            call.pending - 1, call.polls + 1))

NextHost == HostCpuStep \/ HostPpuStep

SpecHost == InitHost /\ [][NextHost]_vars

---------------------------------------------------------------------------
(* Claims about the delivery of the NMI *)

\* How many of the first n PPU steps of a run brought the counters to
\* (241, 2).
NmiPointsIn(n) ==
    IF n < NmiPoint THEN 0 ELSE (n - NmiPoint) \div FramePeriod + 1

\* C21: in the host loop trigger_NMI is called exactly when a PPU step
\* brings the counters to (241, 2) while generate_nmi is true (the CPU
\* then enters the NMI vector with three bytes pushed), which is once per
\* 89342 PPU steps while generate_nmi stays true and never while it is
\* false; cpu.step() itself never enters the NMI vector or pushes.
C21_NmiDelivery ==
    /\ error = "none"
    /\ call.op = "ppu_step" =>
          /\ (cpu # pre.cpu) <=>
                (ppu.generate_nmi /\ ppu.scanline = 241 /\ ppu.cycle = 2)
          /\ (cpu # pre.cpu) =>
                /\ cpu.PC = \h9000
                /\ cpu.SP = (pre.cpu.SP - 3) % 256
          /\ FrameStep(ppu) = call.polls % FramePeriod
    /\ call.op = "cpu_step" =>
          /\ cpu.SP = pre.cpu.SP
          /\ cpu.PC = \h9000 => pre.cpu.PC = \h9000
    /\ call.pending = 0 =>
          cpu.SP = (\hFD - 3 * (IF ppu.generate_nmi
                                THEN NmiPointsIn(call.polls) ELSE 0)) % 256

\* The second delivery, one frame of 89342 PPU steps after the first:
\* the handler at 0x9000 is interrupted and six bytes are on the stack.
C21_Witness ==
    /\ call.op = "ppu_step"
    /\ call.polls = NmiPoint + FramePeriod
    /\ ppu.scanline = 241 /\ ppu.cycle = 2
    /\ ppu.generate_nmi
    /\ pre.cpu.PC = \h9000 /\ pre.cpu.SP = \hFA
    /\ cpu.PC = \h9000 /\ cpu.SP = \hF7

\* The PPU at (241, 2) in the run that never set generate_nmi: the CPU is
\* still in its loop with an empty stack.
C21_WitnessDisabled ==
    /\ call.op = "ppu_step"
    /\ ppu.scanline = 241 /\ ppu.cycle = 2
    /\ ~ppu.generate_nmi
    /\ cpu.SP = \hFD
    /\ cpu.PC = \h0200

(* trigger_NMI on its own *)

MaxNmiOps == 3

\* 0x0300, 0x0301 and 0x0302 hold PHP, PLP and RTI.
NmiPCs == {\h0000, \h0200, \h0300, \h0301, \h0302, \h80FF, \hC0DE, \hFFFF}

NmiCells ==
    StackCells \o << <<\h9000, \h40>>, <<\h0300, \h08>>, <<\h0301, \h28>>,
                     <<\h0302, \h40>>, <<\h0101, \hFF>>, <<\h0102, \h10>> >>

NmiSPs == {\h00, \h01, \h02, \h03, \h80, \hFD, \hFF}

NmiFlags == {\h00, \h04, \h43, \h88, \hCF}

NmiStalls == {0, 512}

\* A CPU between two steps: any PC, SP and flags, B false, with or without
\* a DMA stall pending. The NMI handler at 0x9000 is a single RTI, and the
\* stack page holds bytes with bit 4 set for PLP and RTI to pop.
InitNmi ==
    \E pc \in NmiPCs, S \in NmiSPs, f \in NmiFlags, st \in NmiStalls :
        Start([Load(Program(\h0200, <<\hEA>>,
                            NmiCells,
                            \h11, \h22, \h33, S, f))
                  EXCEPT !.cpu.PC = pc, !.cpu.stall = st,
                         !.cpu.cpu_ticks = 7 + st],
              NewCall)

Nmi ==
    /\ error = "none"
    /\ nops < MaxNmiOps
    /\ Becomes(trigger_NMI(M), "nmi", cpu.PC, cpu.SP)

NmiStep ==
    /\ error = "none"
    /\ nops < MaxNmiOps
    /\ Becomes(step(M), "step", cpu.PC, 0)

NextNmi == Nmi \/ NmiStep

SpecNmi == InitNmi /\ [][NextNmi]_vars

\* The stack byte at 0x100 | ((SP - k) mod 256) of machine m, for the stack
\* pointer SP given.
StackByte(m, SP, k) == At(m.cpu.ram, \h100 + ((SP - k) % 256))

\* C22: trigger_NMI, from any CPU state, pushes the high byte of PC, then
\* the low byte, then the status byte with bits 4 and 5 set, leaves SP three
\* lower (mod 256), sets I, leaves B false, sets PC to the little-endian
\* word at 0xFFFA/0xFFFB and leaves A, X, Y, C, Z, D, V, N, stall and
\* cpu_ticks unchanged.
C22_TriggerNmi ==
    call.op = "nmi" =>
        /\ error = "none"
        /\ StackByte(M, pre.cpu.SP, 0) = (pre.cpu.PC \div 256) % 256
        /\ StackByte(M, pre.cpu.SP, 1) = pre.cpu.PC % 256
        /\ StackByte(M, pre.cpu.SP, 2)
              = BitOr(status_without_bit5(pre.cpu), \b00110000)
        /\ cpu.SP = (pre.cpu.SP - 3) % 256
        /\ cpu.I
        /\ ~cpu.B
        /\ cpu.PC = MemByte(pre, \hFFFA) + 256 * MemByte(pre, \hFFFB)
        /\ cpu.A = pre.cpu.A /\ cpu.X = pre.cpu.X /\ cpu.Y = pre.cpu.Y
        /\ cpu.C = pre.cpu.C /\ cpu.Z = pre.cpu.Z /\ cpu.D = pre.cpu.D
        /\ cpu.V = pre.cpu.V /\ cpu.N = pre.cpu.N
        /\ cpu.stall = pre.cpu.stall
        /\ cpu.cpu_ticks = pre.cpu.cpu_ticks

\* An NMI taken with SP = 0x01 and I clear: the three bytes land at 0x0101,
\* 0x0100 and 0x01FF and SP wraps to 0xFE.
C22_Witness ==
    /\ call.op = "nmi"
    /\ pre.cpu.SP = \h01
    /\ pre.cpu.PC = \hC0DE
    /\ ~pre.cpu.I
    /\ pre.cpu.stall = 512
    /\ cpu.SP = \hFE
    /\ At(cpu.ram, \h0101) = \hC0
    /\ At(cpu.ram, \h0100) = \hDE
    /\ At(cpu.ram, \h01FF) = \hB8
    /\ cpu.PC = \h9000

(* The cartridge on the CPU bus *)

MaxCartOps == 2

CartAddrs == {\h6000, \h6001, \h7FFF, \h8000, \h8001, \hA000, \hBFFA,
              \hC000, \hC001, \hE000, \hFFFA, \hFFFF}

CartValues == {\h00, \h3C, \h80}

NextCart ==
    \/ \E a \in CartAddrs, v \in CartValues : nops < MaxCartOps /\ Write(a, v)
    \/ \E a \in CartAddrs : nops < MaxCartOps /\ Read(a)

SpecCart == Init /\ [][NextCart]_vars

\* C23: with one 16 KiB PRG bank a cartridge read at a and at a + 0x4000
\* return the same byte for every a in 0x8000..0xBFFF; with two banks a read
\* at a in 0x8000..0xFFFF returns PRG byte a - 0x8000; no read in
\* 0x8000..0xFFFF indexes outside the PRG-ROM.
C23_PrgRomWindow ==
    /\ nops = 0 =>
          /\ \A a \in \h8000 .. \hFFFF : Ok(read_mapper0(M, a))
          /\ rom.prg_rom_size = 1 =>
                \A a \in \h8000 .. \hBFFF :
                    read_mapper0(M, a).ret = read_mapper0(M, a + \h4000).ret
          /\ rom.prg_rom_size = 2 =>
                \A a \in \h8000 .. \hFFFF :
                    read_mapper0(M, a).ret = At(rom.prg_rom, a - \h8000)
    /\ (call.op = "read" /\ call.a >= \h8000) =>
          /\ error = "none"
          /\ rom.prg_rom_size = 1 =>
                call.ret = At(pre.rom.prg_rom, (call.a - \h8000) % 16384)
          /\ rom.prg_rom_size = 2 =>
                call.ret = At(pre.rom.prg_rom, call.a - \h8000)

\* A one-bank cartridge read through the mirror: 0xC001 returns the byte
\* PRG index 1 holds.
C23_Witness ==
    /\ call.op = "read" /\ call.a = \hC001
    /\ rom.prg_rom_size = 1
    /\ call.ret = \h4C
    /\ At(rom.prg_rom, 1) = \h4C

\* A two-bank cartridge: 0xC001 returns PRG byte 0x4001, which differs from
\* PRG byte 1.
C23_WitnessTwoBanks ==
    /\ call.op = "read" /\ call.a = \hC001
    /\ rom.prg_rom_size = 2
    /\ call.ret = \h4C
    /\ At(rom.prg_rom, 1) = \h00

C24_WitnessRomAddress ==
    /\ call.op = "write" /\ call.a = \hFFFF /\ call.v = \h3C
    /\ At(rom.prg_ram, \h1FFF) = \h3C
    /\ At(pre.rom.prg_ram, \h1FFF) = \h00
    /\ read_memory(M, \hFFFF, "ABSOLUTE").ret = \hA0

\* The last call was a bus read routed to a write-only PPU register or a bus
\* write routed to the read-only PPUSTATUS.
WrongWayRegister ==
    \/ /\ call.op = "read"
       /\ \h2000 <= call.a /\ call.a < \h4000
       /\ call.a % 8 \in {0, 1, 3, 5, 6}
    \/ /\ call.op = "write"
       /\ \h2000 <= call.a /\ call.a < \h3FFF
       /\ call.a % 8 = 2

\* C25: a CPU bus read that resolves to PPU register 0x2000, 0x2001, 0x2003,
\* 0x2005 or 0x2006, and a CPU bus write that resolves to 0x2002, raises a
\* lookup failure instead of returning and leaves every PPU register, latch
\* and memory byte unchanged.
C25_WrongWayRaises ==
    WrongWayRegister =>
        /\ error = "LookupError"
        /\ ppu = pre.ppu
        /\ rom = pre.rom

\* A read of 0x2006 after a first PPUADDR write: the lookup failure leaves
\* the address latch set.
C25_Witness ==
    /\ call.op = "read" /\ call.a = \h2006
    /\ error = "LookupError"
    /\ ppu.addr_write_latch
    /\ ppu.addr = \h3F00

\* A write to a mirror of PPUSTATUS.
C25_WitnessWrite ==
    /\ call.op = "write" /\ call.a = \h3FFA /\ call.v = \h84
    /\ error = "LookupError"
    /\ ppu = pre.ppu

\* The register a compare opcode reads.
CompareRegister(c, op) ==
    IF op \in CmpOpcodes THEN c.A ELSE IF op \in CpxOpcodes THEN c.X ELSE c.Y

\* C26: for all bytes reg and src, CMP, CPX and CPY set C = (reg >= src),
\* Z = (reg = src) and N = bit 7 of (reg - src) mod 256, and change no
\* register.
C26_Compare ==
    \A op \in CmpOpcodes \cup CpxOpcodes \cup CpyOpcodes :
        Stepped(op) =>
            LET src == OperandByte(pre, Instructions[op + 1].mode,
                                   OperandData(pre))
                reg == CompareRegister(pre.cpu, op)
            IN  /\ error = "none"
                /\ cpu.C = (reg >= src)
                /\ cpu.Z = (reg = src)
                /\ cpu.N = (Bit((reg - src) % 256, 7) = 1)
                /\ cpu.A = pre.cpu.A /\ cpu.X = pre.cpu.X
                /\ cpu.Y = pre.cpu.Y /\ cpu.SP = pre.cpu.SP

\* C27: JSR at address p pushes the high byte and then the low byte of
\* p + 2 and sets PC to its operand; an RTS executed later with the same SP
\* and those two stack bytes intact sets PC = p + 3 and restores SP to its
\* value before the JSR.
C27_JsrRts ==
    /\ [](Stepped(\h20) =>
            /\ error = "none"
            /\ StackByte(M, pre.cpu.SP, 0) = ((pre.cpu.PC + 2) \div 256) % 256
            /\ StackByte(M, pre.cpu.SP, 1) = (pre.cpu.PC + 2) % 256
            /\ cpu.SP = (pre.cpu.SP - 2) % 256
            /\ cpu.PC = OperandData(pre))
    /\ [][(Stepped(\h20) /\ MemByte(M, cpu.PC) = \h60 /\ call'.op = "step")
             => /\ error' = "none"
                /\ cpu'.PC = pre.cpu.PC + 3
                /\ cpu'.SP = pre.cpu.SP]_vars

\* JSR $0300 at 0x02FD with SP = 0x00 and the RTS at 0x0300: the return
\* address 0x02FF lies at 0x0100 and 0x01FF, and the RTS returns to 0x0300
\* with SP back at 0x00.
C27_Witness ==
    /\ Stepped(\h60)
    /\ nops = 2
    /\ pre.cpu.PC = \h0300
    /\ pre.cpu.SP = \hFE
    /\ At(cpu.ram, \h0100) = \h02
    /\ At(cpu.ram, \h01FF) = \hFF
    /\ cpu.PC = \h0300
    /\ cpu.SP = \h00

C29_AdcSbcFlags ==
    \A op \in AdcOpcodes \cup SbcOpcodes :
        Stepped(op) =>
            LET src == OperandByte(pre, Instructions[op + 1].mode,
                                   OperandData(pre))
                A == pre.cpu.A
                c == AsInt(pre.cpu.C)
                sum == IF op \in AdcOpcodes THEN A + src + c
                       ELSE A - src - (1 - c)
                res == sum % 256
            IN  /\ error = "none"
                /\ op \in AdcOpcodes =>
                      /\ cpu.C = (sum > \hFF)
                      /\ cpu.V = (Bit(A, 7) = Bit(src, 7) /\ Bit(res, 7) # Bit(A, 7))
                /\ op \in SbcOpcodes =>
                      /\ cpu.C = (sum >= 0)
                      /\ cpu.V = (Bit(A, 7) # Bit(src, 7) /\ Bit(res, 7) # Bit(A, 7))
                /\ cpu.Z = (res = 0)
                /\ cpu.N = (Bit(res, 7) = 1)

\* SBC ($10),Y of 0x01 from 0x80 with the carry set: 0x7F, signed overflow,
\* no borrow.
C29_Witness ==
    /\ Stepped(\hF1)
    /\ pre.cpu.A = \h80 /\ pre.cpu.C
    /\ MemByte(pre, \h0310) = \h01
    /\ cpu.A = \h7F
    /\ cpu.V /\ cpu.C /\ ~cpu.N /\ ~cpu.Z

\* ADC #$7F to 0x01 with the carry clear: 0x80, signed overflow, no carry.
C29_WitnessAdc ==
    /\ Stepped(\h69)
    /\ pre.cpu.A = \h01 /\ ~pre.cpu.C
    /\ MemByte(pre, pre.cpu.PC + 1) = \h7F
    /\ cpu.A = \h80
    /\ cpu.V /\ ~cpu.C /\ cpu.N /\ ~cpu.Z

(* The CPU stepped through an OAM DMA stall *)

MaxStallSteps == 516

\* A store to 0x4014 of a RAM page number, then one more instruction:
\* LDA #page, STA $4014, LDA #$55; STX $4014, INX; STY $4014, NOP.
StallPrograms ==
    {Program(\h0200, <<\hA9, pg, \h8D, \h14, \h40, \hA9, \h55>>,
             << <<\h0010, \h5A>>, <<\h07FF, \hC3>> >>,
             0, \h11, \h22, \hFD, \h04) : pg \in {\h00, \h02, \h07}}
    \cup
    {Program(\h0200, <<\h8E, \h14, \h40, \hE8>>,
             << <<\h0010, \h5A>>, <<\h07FF, \hC3>> >>,
             \h33, pg, \h22, \hFD, \h04) : pg \in {\h00, \h02, \h07}}
    \cup
    {Program(\h0200, <<\h8C, \h14, \h40, \hEA>>,
             << <<\h0010, \h5A>>, <<\h07FF, \hC3>> >>,
             \h33, \h11, pg, \hFD, \hC7) : pg \in {\h00, \h02, \h07}}

\* since: the number of steps taken after the step that wrote 0x4014, -1
\* before that step.
StallCall(pc, since) ==
    [op |-> "step", a |-> pc, v |-> 0, ret |-> 0, since |-> since]

InitStall ==
    \E s \in StallPrograms : Start(Load(s), StallCall(0, -1))

StallStep ==
    /\ error = "none"
    /\ nops < MaxStallSteps
    /\ BecomesCall(step(M),
                   StallCall(cpu.PC,
                             IF cpu.stall = 0
                                /\ MemByte(M, cpu.PC) \in {\h8C, \h8D, \h8E}
                                /\ OperandData(M) = \h4014
                             THEN 0
                             ELSE IF call.since < 0 THEN -1
                             ELSE call.since + 1))

NextStall == StallStep

SpecStall == InitStall /\ [][NextStall]_vars

\* C30: after an OAM DMA write sets stall = 512, each of the next 512 CPU
\* steps decrements stall by one, adds exactly one to cpu_ticks and changes
\* no other CPU, RAM or PPU state (no opcode is fetched); the 513th step is
\* the first to execute the instruction at PC.
C30_DmaStall ==
    /\ error = "none"
    /\ (nops > 0 /\ call.since = 0) => cpu.stall = 512
    /\ (1 <= call.since /\ call.since <= 512) =>
          /\ pre.cpu.stall = 513 - call.since
          /\ cpu = [pre.cpu EXCEPT !.stall = @ - 1, !.cpu_ticks = @ + 1]
          /\ ppu = pre.ppu
          /\ rom = pre.rom
    /\ call.since = 513 =>
          LET instruction == Instructions[MemByte(pre, pre.cpu.PC) + 1]
          IN  /\ pre.cpu.stall = 0
              /\ cpu.stall = 0
              /\ cpu.PC = pre.cpu.PC + instruction.length
              /\ cpu.cpu_ticks = pre.cpu.cpu_ticks + instruction.ticks
              /\ MemByte(pre, pre.cpu.PC) = \hA9 => cpu.A = \h55
              /\ MemByte(pre, pre.cpu.PC) = \hE8 => cpu.X = pre.cpu.X + 1

\* The 513th step after LDA #2, STA $4014: it executes the LDA #$55 at
\* 0x0205, 520 ticks after the start (2 + 4 + 512 + 2).
C30_Witness ==
    /\ call.since = 513
    /\ pre.cpu.PC = \h0205
    /\ pre.cpu.A = \h02
    /\ cpu.A = \h55
    /\ cpu.PC = \h0207
    /\ cpu.cpu_ticks = 520
    /\ At(ppu.spr, 0) = \hA9

\* The 512th stall step: stall reaches 0 and nothing else but cpu_ticks has
\* changed.
C30_WitnessLastStall ==
    /\ call.since = 512
    /\ pre.cpu.stall = 1
    /\ cpu.stall = 0
    /\ cpu.PC = pre.cpu.PC
    /\ cpu.cpu_ticks = pre.cpu.cpu_ticks + 1

\* C31: from any CPU state, trigger_NMI followed by an RTI executed with the
\* same SP and the three pushed stack bytes intact restores PC, SP and the
\* flags C, Z, I, D, V, N to their values before the NMI, with B false.
C31_NmiRti ==
    [][(/\ call.op = "nmi"
        /\ cpu.stall = 0
        /\ MemByte(M, cpu.PC) = \h40
        /\ call'.op = "step")
        => /\ error' = "none"
           /\ cpu'.PC = pre.cpu.PC
           /\ cpu'.SP = pre.cpu.SP
           /\ cpu'.C = pre.cpu.C /\ cpu'.Z = pre.cpu.Z
           /\ cpu'.I = pre.cpu.I /\ cpu'.D = pre.cpu.D
           /\ cpu'.V = pre.cpu.V /\ cpu'.N = pre.cpu.N
           /\ ~cpu'.B]_vars

\* The opcodes of the three page-crossing modes whose handler reads memory
\* and whose table entry has page_ticks = 1.
PagedReadOpcodes ==
    {op \in PagedOpcodes :
        /\ Instructions[op + 1].page_ticks = 1
        /\ Instructions[op + 1].method \notin {"NOP", "unimplemented"}}

\* The opcodes of the three modes whose table entry has page_ticks = 0.
UnpagedOpcodes ==
    {op \in 0 .. 255 : /\ Instructions[op + 1].mode \in PageModes
                       /\ Instructions[op + 1].page_ticks = 0}

\* The base address of the indexed access the instruction at PC makes.
PageBase(m) ==
    IF Instructions[MemByte(m, m.cpu.PC) + 1].mode = "INDIRECT_INDEXED"
    THEN MemByte(m, OperandData(m) % 256)
         + 256 * MemByte(m, (OperandData(m) + 1) % 256)
    ELSE OperandData(m)

PageIndex(m) ==
    IF Instructions[MemByte(m, m.cpu.PC) + 1].mode = "ABSOLUTE_X"
    THEN m.cpu.X ELSE m.cpu.Y

\* C32: for every memory-reading opcode in ABSOLUTE_X, ABSOLUTE_Y or
\* INDIRECT_INDEXED mode whose table entry has page_ticks = 1, one step adds
\* base ticks + 1 exactly when the high byte of (base + index) & 0xFFFF
\* differs from the high byte of base (the wrap past 0xFFFF included) and
\* base ticks otherwise; entries with page_ticks = 0 never add the tick.
C32_PageCrossTicks ==
    /\ \A op \in PagedReadOpcodes :
          Stepped(op) =>
              /\ error = "none"
              /\ cpu.cpu_ticks - pre.cpu.cpu_ticks
                    = Instructions[op + 1].ticks
                      + (IF ((PageBase(pre) + PageIndex(pre)) % 65536) \div 256
                             # PageBase(pre) \div 256
                         THEN 1 ELSE 0)
    /\ \A op \in UnpagedOpcodes :
          Stepped(op) =>
              /\ error = "none"
              /\ cpu.cpu_ticks - pre.cpu.cpu_ticks = Instructions[op + 1].ticks

\* LDA $FFF0,X with X = 0x20: the sum wraps to 0x0010 and the step takes
\* 4 + 1 ticks.
C32_Witness ==
    /\ Stepped(\hBD)
    /\ OperandData(pre) = \hFFF0
    /\ pre.cpu.X = \h20
    /\ cpu.A = \hF0
    /\ cpu.cpu_ticks = pre.cpu.cpu_ticks + 5

\* STA ($10),Y across a page: 6 ticks, the byte stored at 0x0310.
C32_WitnessStore ==
    /\ Stepped(\h91)
    /\ PageBase(pre) = \h02F0
    /\ pre.cpu.Y = \h20
    /\ At(cpu.ram, \h0310) = \h5A
    /\ cpu.cpu_ticks = pre.cpu.cpu_ticks + 6

(* PPUADDR and PPUDATA driven by a CPU program *)

MaxDataSteps == 14

DataAddrs == {\h2000, \h23FF, \h2400, \h2FFF, \h3000, \h3EDF, \h3EE0,
              \h3EFF, \h3F00, \h3F10, \h3F1F, \h3FFF}

\* LDA #ctrl, STA $2000; PPUADDR := a; LDA #v, STA $2007; PPUADDR := a;
\* LDA $2007; LDX $2007.
DataCode(a, v, ctrl) ==
    <<\hA9, ctrl, \h8D, \h00, \h20,
      \hA9, a \div 256, \h8D, \h06, \h20, \hA9, a % 256, \h8D, \h06, \h20,
      \hA9, v, \h8D, \h07, \h20,
      \hA9, a \div 256, \h8D, \h06, \h20, \hA9, a % 256, \h8D, \h06, \h20,
      \hAD, \h07, \h20, \hAE, \h07, \h20>>

\* The program at 0x0200 on a PPU whose read buffer holds b.
InitPpuData ==
    \E a \in DataAddrs, v \in {\h2A, \h84}, ctrl \in {\h00, \h04},
       b \in {\h00, \h5C} :
        Start([Load(Program(\h0200, DataCode(a, v, ctrl), <<>>,
                            0, 0, 0, \hFD, \h04))
                  EXCEPT !.ppu.buffer2007 = b],
              NewCall)

PpuDataStep ==
    /\ error = "none"
    /\ nops < MaxDataSteps
    /\ Becomes(step(M), "step", cpu.PC, 0)

NextPpuData == PpuDataStep

SpecPpuData == InitPpuData /\ [][NextPpuData]_vars

\* The VRAM address and the byte the program at 0x0200 uses.
DataAddr == 256 * MemByte(M, \h0206) + MemByte(M, \h020B)
DataByte == MemByte(M, \h0210)
DataIncrement == IF Bit(MemByte(M, \h0201), 2) = 1 THEN 32 ELSE 1

\* The step just taken was the first or the second PPUDATA read of the
\* program, or touched PPUDATA at all.
FirstDataRead == call.op = "step" /\ call.a = \h021E
SecondDataRead == call.op = "step" /\ call.a = \h0221
DataAccess == call.op = "step" /\ call.a \in {\h0211, \h021E, \h0221}

\* C33 as stated: for every VRAM address a in 0x2000..0x3EFF and byte v,
\* after PPUADDR is set to a, v is written to PPUDATA and PPUADDR is set to
\* a again, the first PPUDATA read returns the old read-buffer content and
\* the second returns v; for a in 0x3F00..0x3FFF the first read already
\* returns v; each PPUDATA read or write advances the VRAM address by 1 or
\* 32 as PPUCTRL bit 2 selects.
C33_PpuDataBuffered ==
    /\ error = "none"
    /\ (FirstDataRead /\ DataAddr < \h3F00) => cpu.A = pre.ppu.buffer2007
    /\ (SecondDataRead /\ DataAddr < \h3F00) => cpu.X = DataByte
    /\ (FirstDataRead /\ DataAddr >= \h3F00) => cpu.A = DataByte
    /\ DataAccess => ppu.addr = pre.ppu.addr + DataIncrement

\* C33 amended: the second read returns v when it is itself a read below
\* the palette, that is when a + increment < 0x3F00.
C33_PpuDataBufferedBelowPalette ==
    /\ error = "none"
    /\ (FirstDataRead /\ DataAddr < \h3F00) => cpu.A = pre.ppu.buffer2007
    /\ (SecondDataRead /\ DataAddr + DataIncrement < \h3F00)
          => cpu.X = DataByte
    /\ (FirstDataRead /\ DataAddr >= \h3F00) => cpu.A = DataByte
    /\ DataAccess => ppu.addr = pre.ppu.addr + DataIncrement

\* The two reads after 0x84 was written at 0x23FF with increment 32 and
\* 0x5C in the buffer: 0x5C, then 0x84.
C33_Witness ==
    /\ SecondDataRead
    /\ DataAddr = \h23FF /\ DataByte = \h84 /\ DataIncrement = 32
    /\ cpu.A = \h5C
    /\ cpu.X = \h84
    /\ ppu.addr = \h23FF + 64

\* A palette address: the first read returns the byte written.
C33_WitnessPalette ==
    /\ FirstDataRead
    /\ DataAddr = \h3F10 /\ DataByte = \h2A
    /\ pre.ppu.buffer2007 = \h5C
    /\ cpu.A = \h2A

\* C34: after any sequence of CPU bus reads and writes of 0x4016, the joypad
\* read counter stays within 0..8.
C34_ReadCountBounded == cpu.joypad1.read_count \in 0 .. 8

\* C35: the B flag is false in every state observable between operations:
\* after construction, after every CPU step (PHP, PLP, BRK and RTI with any
\* popped byte included) and after every trigger_NMI.
C35_BreakFlagFalse == ~cpu.B

\* A PLP that popped 0xFF: every other flag is set, B is not.
C35_Witness ==
    /\ Stepped(\h28)
    /\ At(pre.cpu.ram, \h100 + cpu.SP) = \hFF
    /\ cpu.C /\ cpu.Z /\ cpu.I /\ cpu.D /\ cpu.V /\ cpu.N
    /\ ~cpu.B

\* An RTI that popped a status byte with bit 4 set, a PHP and a BRK.
C35_WitnessRti ==
    /\ Stepped(\h40)
    /\ Bit(At(pre.cpu.ram, \h100 + ((pre.cpu.SP + 1) % 256)), 4) = 1
    /\ ~cpu.B

C35_WitnessPhp ==
    /\ Stepped(\h08)
    /\ Bit(At(cpu.ram, \h100 + pre.cpu.SP), 4) = 1
    /\ ~cpu.B

C35_WitnessBrk ==
    /\ Stepped(\h00)
    /\ Bit(At(cpu.ram, \h100 + ((pre.cpu.SP - 2) % 256)), 4) = 1
    /\ ~cpu.B

\* C36: after any sequence of CPU steps and NMI deliveries PC is a 16-bit
\* value, 0 <= PC <= 0xFFFF, also when a non-jumping instruction is
\* executed at the top of the address space or RTS pops the return address
\* 0xFFFF.
C36_PcSixteenBits == 0 <= cpu.PC /\ cpu.PC <= \hFFFF

---------------------------------------------------------------------------
(* The OAM port on the CPU bus *)

MaxOamOps == 4

OamAddrs == {\h00, \h7F, \hFE, \hFF}

OamValues == {\h11, \hEE}

NextOam ==
    \/ \E v \in OamAddrs : nops < MaxOamOps /\ Write(\h2003, v)
    \/ \E v \in OamValues : nops < MaxOamOps /\ Write(\h2004, v)
    \/ nops < MaxOamOps /\ Read(\h2004)

SpecOam == Init /\ [][NextOam]_vars

\* C37: after any sequence of OAMADDR (0x2003) and OAMDATA (0x2004)
\* writes the OAM pointer is within 0..255 (a write at pointer 255 wraps
\* it to 0), so every later OAMDATA read or write completes without an
\* index error.
C37_OamPointerBounded ==
    /\ ppu.spr_address \in 0 .. 255
    /\ error # "IndexError"

---------------------------------------------------------------------------
(* Opcodes of length 0 *)

MaxStuckTicks == 24

\* LDA #1 and then an opcode of length 0 followed by two bytes an operand
\* would be made of, in RAM and in PRG-ROM.
StuckPrograms ==
    {Program(pc, <<\hA9, \h01, op, \hF0, \h06>>, <<>>, \h80, \h20, \h20, \hFD, f) :
        pc \in {\h0200, \hC000}, op \in LengthZeroOpcodes, f \in {\h00, \hC3}}

InitStuck ==
    \E s \in StuckPrograms, st \in {0, 1} :
        Start([Load(s) EXCEPT !.cpu.stall = st, !.cpu.cpu_ticks = 7 + st],
              NewCall)

StuckStep ==
    /\ error = "none"
    /\ cpu.cpu_ticks < MaxStuckTicks
    /\ Becomes(step(M), "step", cpu.PC, 0)

NextStuck == StuckStep

\* The loop of run calls cpu.step() again as long as it runs: a step that
\* can be taken is taken. StuckStep is the only action, so a step is
\* enabled when its guard holds and has occurred when nops has grown.
StepTaken ==
    /\ error = "none"
    /\ cpu.cpu_ticks < MaxStuckTicks
    /\ nops' = nops + 1

SpecStuck == InitStuck /\ [][NextStuck]_vars /\ WF_nops(StepTaken)

\* PC addresses an opcode whose table entry has length 0.
Stuck == error = "none" /\ MemByte(M, cpu.PC) \in LengthZeroOpcodes

\* C38: if PC addresses an opcode whose table entry has operand length 0
\* and no NMI is delivered, every later CPU step leaves PC where it is, so
\* the same opcode is executed again and the next instruction is never
\* reached, while cpu_ticks grows with every step and without bound (here
\* up to MaxStuckTicks).
C38_StuckAtLengthZero ==
    /\ [][(Stuck /\ call'.op = "step")
          => /\ cpu'.PC = cpu.PC
             /\ cpu'.cpu_ticks > cpu.cpu_ticks
             /\ error' = "none"
             /\ MemByte(M', cpu'.PC) \in LengthZeroOpcodes]_vars
    /\ (Stuck ~> (Stuck /\ cpu.cpu_ticks >= MaxStuckTicks))

\* KIL (0x02) after LDA #1 at 0x0200 has been executed three times.
C38_Witness ==
    /\ call.op = "step"
    /\ cpu.PC = \h0202
    /\ MemByte(M, cpu.PC) = \h02
    /\ cpu.A = \h01
    /\ cpu.stall = 0
    /\ cpu.cpu_ticks = 7 + 2 + 3 * 2

\* SBC with length 0 (0xEB) in PRG-ROM has run twice on the operand 0.
C38_WitnessSbc ==
    /\ call.op = "step"
    /\ cpu.PC = \hC002
    /\ MemByte(M, cpu.PC) = \hEB
    /\ cpu.cpu_ticks = 7 + 2 + 2 * 2
    /\ cpu.A # \h01

---------------------------------------------------------------------------
(* The PPU stepped over the render, the vblank and the pre-render points  *)
(* with sprites in OAM                                                    *)

MaxSpriteSteps == 3

\* PPUMASK bytes: bit 1 and bit 2 show the left eight columns of
\* background and sprites, bit 3 and bit 4 show background and sprites.
SpriteMasks == {\h00, \h08, \h10, \h18, \h1A, \h1C, \h1E}

\* OAM entry 0 as <<y, tile, attributes, x>>. Tile 1 has one opaque pixel,
\* the leftmost of its first line; tile 2 has one, the rightmost of its
\* last line; tile 0 is transparent.
SpriteZeros ==
    { <<\h10, 1, \h00, \h20>>, <<\h10, 1, \h00, \h03>>, <<\h10, 1, \h40, \h03>>,
      <<\hFF, 1, \h00, \h20>>, <<\hEF, 2, \h00, \h20>>, <<\hEF, 2, \h80, \h20>>,
      <<\h10, 1, \h40, \hFC>>, <<\h10, 0, \h00, \h20>>, <<\h10, 1, \h20, \h20>> }

\* The (scanline, cycle) pairs stepping starts from: before the render,
\* before the vblank flag is set and before the pre-render step.
SpriteStarts == { <<240, 255>>, <<241, 0>>, <<261, 0>> }

\* The cartridge's pattern tables with tiles 1 and 2 as described.
SpriteChr == (\h0010 :> \h80) @@ (\h002F :> \h01)

\* OAM with entry 0 as given, entry 1 showing tile 1 at (0x40, 0x40) and
\* the other entries zero as constructed.
SpriteOam(s) ==
    (0 :> s[1]) @@ (1 :> s[2]) @@ (2 :> s[3]) @@ (3 :> s[4])
    @@ (4 :> \h40) @@ (5 :> 1) @@ (7 :> \h40)

InitSprite ==
    \E mask \in SpriteMasks, s \in SpriteZeros, at \in SpriteStarts,
       st \in {\h00, \hC0} :
        Start([write_register(cpu_new(ppu_new, ProgramImage), \h2001, mask)
                  EXCEPT !.rom.chr_rom = SpriteChr,
                         !.ppu.spr = [j \in {k \in DOMAIN SpriteOam(s) :
                                               SpriteOam(s)[k] # 0}
                                         |-> SpriteOam(s)[j]],
                         !.ppu.scanline = at[1],
                         !.ppu.cycle = at[2],
                         !.ppu.status = st],
              NewCall)

SpriteStep ==
    /\ error = "none"
    /\ nops < MaxSpriteSteps
    /\ Becomes(Ret(ppu_step(M), 0), "ppu_step", 0, 0)

NextSprite == SpriteStep

SpecSprite == InitSprite /\ [][NextSprite]_vars

\* OAM entry 0 of m has a non-transparent pixel on the screen at a column
\* x with x >= 8 or with both left-8 flags enabled.
SpriteZeroVisible(m) ==
    /\ At(m.ppu.spr, 0) # \hFF
    /\ \E x \in 0 .. 7, y \in 0 .. 7 :
          /\ At(m.ppu.spr, 3) + x < NES_WIDTH
          /\ At(m.ppu.spr, 0) + y < NES_HEIGHT
          /\ SpritePixel(m, 0, At(m.ppu.spr, 3) + x, At(m.ppu.spr, 0) + y) # 0
          /\ \/ At(m.ppu.spr, 3) + x >= 8
             \/ m.ppu.left_8_sprite_show /\ m.ppu.left_8_background_show

\* C39: the PPU step at (scanline 240, cycle 256), which renders the whole
\* frame, sets status bit 6 exactly when show_sprites and show_background
\* are both true and OAM entry 0 (with y # 0xFF) has a non-transparent
\* pixel on screen at a column x >= 8 or with both left-8 flags enabled;
\* no other PPU step and no other OAM entry sets bit 6 (a bit 6 set before
\* the step stays).
C39_SpriteZeroHit ==
    call.op = "ppu_step" =>
        /\ error = "none"
        /\ Bit(ppu.status, 6) = 1 <=>
              \/ Bit(pre.ppu.status, 6) = 1
              \/ /\ pre.ppu.scanline = 240 /\ pre.ppu.cycle = 256
                 /\ pre.ppu.show_sprites /\ pre.ppu.show_background
                 /\ SpriteZeroVisible(pre)

\* The render set bit 6 for an entry 0 whose only opaque pixel is in
\* column 3, with both left-8 flags enabled.
C39_Witness ==
    /\ call.op = "ppu_step"
    /\ pre.ppu.scanline = 240 /\ pre.ppu.cycle = 256
    /\ pre.ppu.status = 0 /\ ppu.status = \h40
    /\ At(ppu.spr, 3) = \h03 /\ At(ppu.spr, 2) = \h00
    /\ ppu.left_8_sprite_show /\ ppu.left_8_background_show

\* The render left bit 6 clear for the same entry 0 with the left eight
\* columns of the background hidden, although entry 1 is opaque on screen.
C39_WitnessClipped ==
    /\ call.op = "ppu_step"
    /\ pre.ppu.scanline = 240 /\ pre.ppu.cycle = 256
    /\ ppu.status = 0
    /\ At(ppu.spr, 3) = \h03 /\ At(ppu.spr, 2) = \h00
    /\ ppu.show_sprites /\ ppu.show_background
    /\ ppu.left_8_sprite_show /\ ~ppu.left_8_background_show
    /\ SpritePixel(M, 4, \h40, \h40) # 0

\* The steps at (241, 1) and (261, 1) were taken and bit 6 is still clear.
C39_WitnessOtherSteps ==
    /\ call.op = "ppu_step"
    /\ pre.ppu.scanline = 261 /\ pre.ppu.cycle = 1
    /\ ppu.status = \h1F
    /\ ppu.show_sprites /\ ppu.show_background
    /\ At(ppu.spr, 3) = \h20 /\ At(ppu.spr, 1) = 1 /\ At(ppu.spr, 0) = \h10

---------------------------------------------------------------------------
(* The host loop around the start of the vertical blank, the CPU polling  *)
(* PPUSTATUS                                                              *)

MaxVblankCalls == 60

\* LDA $2002, JMP $0200 at 0x0200; the NMI handler at 0x9000 is
\* LDA $2002, RTI.
VblankCode == <<\hAD, \h02, \h20, \h4C, \h00, \h02>>

VblankHandler ==
    << <<\h9000, \hAD>>, <<\h9001, \h02>>, <<\h9002, \h20>>, <<\h9003, \h40>> >>

\* The cycles of scanline 240 an iteration of the loop can start at: the
\* PPU has made three steps for each CPU tick.
VblankCycles == {c \in 324 .. 340 : (240 * 341 + c) % 3 = 0}

InitVblank ==
    \E c \in VblankCycles, pc \in {\h0200, \h0203}, ctrl \in {\h00, \h80} :
        Start([write_register(
                   Load(Program(\h0200, VblankCode, VblankHandler,
                                0, 0, 0, \hFD, \h04)),
                   \h2000, ctrl)
                  EXCEPT !.cpu.PC = pc,
                         !.cpu.cpu_ticks = (240 * 341 + c) \div 3,
                         !.ppu.scanline = 240,
                         !.ppu.cycle = c],
              HostCall("new", (240 * 341 + c) \div 3, 0, 240 * 341 + c))

\* cpu.step() and new_ticks = cpu.cpu_ticks - ticks.
VblankCpuStep ==
    /\ error = "none"
    /\ nops < MaxVblankCalls
    /\ call.pending = 0
    /\ BecomesCall(Ret(step(M), 0),
                   HostCall("cpu_step", call.ticks,
                            (step(M).cpu.cpu_ticks - call.ticks) * 3,
                            call.polls))

\* One pass of the PPU loop: ppu.step() and the NMI test; after the last
\* pass ticks += new_ticks.
VblankPpuStep ==
    /\ error = "none"
    /\ nops < MaxVblankCalls
    /\ call.pending > 0
    /\ BecomesCall(Ret(ppu_steps(M, 1), 0),
                   HostCall("ppu_step",
                            IF call.pending = 1
                            THEN cpu.cpu_ticks ELSE call.ticks,
                            call.pending - 1, call.polls + 1))

NextVblank == VblankCpuStep \/ VblankPpuStep

SpecVblank == InitVblank /\ [][NextVblank]_vars

\* The last pass of the PPU loop called trigger_NMI.
NmiCalled == call.op = "ppu_step" /\ cpu # pre.cpu

\* C40: whenever the host loop calls trigger_NMI, PPU status bit 7
\* (vblank) is set: the call is made in the pass of the PPU loop whose
\* ppu.step() was taken at (241, 1) and set vblank, so no CPU step, and no
\* PPUSTATUS read, lies between the two.
C40_NmiInVblank ==
    NmiCalled =>
        /\ error = "none"
        /\ Bit(ppu.status, 7) = 1
        /\ pre.ppu.scanline = 241 /\ pre.ppu.cycle = 1
        /\ ppu.scanline = 241 /\ ppu.cycle = 2
        /\ cpu.PC = \h9000

\* The NMI was delivered with vblank set in the first pass after the CPU
\* step LDA $2002 (4 ticks, 12 passes), which read PPUSTATUS with bit 7
\* clear.
C40_Witness ==
    /\ NmiCalled
    /\ ppu.status = \h80
    /\ pre.ppu.status = 0
    /\ call.pending = 4 * 3 - 1
    /\ pre.cpu.PC = \h0203
    /\ pre.cpu.A = 0
    /\ cpu.PC = \h9000

\* The handler's LDA $2002 has read the vblank flag the NMI came with.
C40_WitnessHandlerRead ==
    /\ call.op = "cpu_step"
    /\ pre.cpu.PC = \h9000
    /\ cpu.PC = \h9003
    /\ cpu.A = \h80
    /\ ppu.status = 0

====
